---- MODULE Spec2Model ----
(***************************************************************************)
(* Model of the request scheduler of lib/client.js (createClient): a       *)
(* queue of request tasks, a pool of sockets, forced cooldowns every        *)
(* sleepEvery completed requests and retry with backoff; and of the parts   *)
(* of lib/versionista.js built on it: the memoized login, the API methods   *)
(* that wait for it, the request chain of getVersionDiff and the lineage    *)
(* getVersions builds from a page's version records.                        *)
(*                                                                         *)
(* Node runs one callback at a time, so each action below is one callback   *)
(* of the event loop: a call of the client function (Submit), the           *)
(* completion callback of a request (Complete), the process.nextTick        *)
(* callback it schedules (NextTick), and a setTimeout callback (FireTimer). *)
(* Time is kept as the remaining delay of every pending timer; Advance      *)
(* lets one sleepFor period pass.  All delays the scheduler uses are        *)
(* multiples of sleepFor, and events are placed on multiples of sleepFor.   *)
(***************************************************************************)
EXTENDS Integers, Sequences, FiniteSets, Bags, TLC

\* ------------------------------------------------------------------------
\* Bounds of the model
\* ------------------------------------------------------------------------
\* number of tasks callers submit to the client directly
NumTasks == 3
\* number of tasks the client can hold: the direct ones, or the requests of
\* one getVersionRawContent call with its re-runs
MaxTasks == 7
\* number of requests the concurrent API calls of a Versionista instance submit
NumApiTasks == 4
\* number of API calls made on the Versionista instance
NumCalls == 2
NumFollowUpTasks == 5
\* longest version listing and latest capture time (apiVersion.fst)
MaxVersions == 5
MaxTime == 2
\* longest diff payload, in parts, and longest page listing
MaxBody == 4
MaxPages == 2
\* number of tasks submitted in the behaviours checked for liveness
NumLiveTasks == 2
\* createClient({maxSockets}) of the modelled instance
MaxSockets == 2
\* createClient({sleepEvery}) of the modelled instance
SleepEvery == 2

\* ------------------------------------------------------------------------
\* Program constants (lib/client.js)
\* ------------------------------------------------------------------------
SLEEP_FOR == 1000
MAX_RETRIES == 3

\* ------------------------------------------------------------------------
\* Program constants (lib/versionista.js)
\* ------------------------------------------------------------------------
\* getVersionRawContent (versionUrl, retries = 2)
DEFAULT_RETRIES == 2

TaskIds == 1..MaxTasks

\* what a request calls back with: a transport error, or a response
ErrorCodes == {"ECONNRESET", "ETIMEDOUT"}
StatusCodes == {200, 404, 502, 503, 504}
Outcomes == [error : ErrorCodes, hasResponse : {FALSE}, statusCode : {0}]
            \cup [error : {"null"}, hasResponse : {TRUE}, statusCode : StatusCodes]

\* the retryIf predicates callers pass: none (the default), or
\* response => response.statusCode !== 200
RetryIfKinds == {"default", "not200"}

\* options of a call: options.immediate, options.retry, options.retryIf
Opt(immediate, retry, kind) == [immediate |-> immediate, retry |-> retry, retryIf |-> kind]

\* the calls the model makes: a plain request, an immediate follow-up with
\* its own retryIf, and a request with retries switched off
Options == {Opt(FALSE, TRUE, "default"), Opt(TRUE, TRUE, "not200"),
            Opt(FALSE, FALSE, "default")}

NoOptions == [immediate |-> FALSE, retry |-> TRUE, retryIf |-> "default"]

VARIABLES
  untilSleep,        \* let untilSleep
  sleeping,          \* let sleeping
  availableSockets,  \* let availableSockets
  queue,             \* const queue: sequence of task ids, head first
  nextId,            \* id of the next task the client function creates
  options,           \* task.options, per task
  retries,           \* task.retries, per task
  state,             \* where a task is: "new", "queued", "inflight", "resolved", "rejected"
  timers,            \* bag of pending setTimeout callbacks [kind, rem]
  tickPending,       \* a process.nextTick(doNextRequest) is scheduled
  dispatches,        \* history: how many times each live task was handed to request()
  sinceCooldown,     \* history: completions since the last forced cooldown began,
                     \* counted up to SleepEvery + 1; -1 before the first cooldown
  awake,             \* history: completions counted since the last timer fired
  last,              \* history: the request callback that has just run, if any
  backoffLeft,       \* history: per task waiting for a retry, the delay left of the
                     \* backoff timer set for that retry
  loggedIn,          \* this._loggedIn: the promise of the login attempt, if any
  calls,             \* the API calls made on the instance and how far each has come
  purpose,           \* which call submitted a task, and as which of its requests
  pending,           \* the promise reaction a settled task has queued, if any
  rawVersions,       \* response.body of the version listing getVersions reads
  lineage,           \* what getVersions returns for rawVersions
  response,          \* response.body as another handler reads it: getPages' listing,
                     \* or two payloads of getVersionDiff
  result             \* what that handler returns for response

\* the variables of the client, those of the Versionista instance and those
\* of one run of a response handler
clientVars == <<untilSleep, sleeping, availableSockets, queue, nextId, options, retries,
                state, timers, tickPending, dispatches, sinceCooldown, awake, last,
                backoffLeft>>
apiVars == <<loggedIn, calls, purpose, pending>>
lineageVars == <<rawVersions, lineage, response, result>>

vars == <<untilSleep, sleeping, availableSockets, queue, nextId, options, retries,
          state, timers, tickPending, dispatches, sinceCooldown, awake, last,
          backoffLeft, loggedIn, calls, purpose, pending, rawVersions, lineage,
          response, result>>

\* ------------------------------------------------------------------------
\* Pure parts of the code
\* ------------------------------------------------------------------------
\* mutant: the upper end of the gateway errors left out
defaultRetryIfNarrow(statusCode) == statusCode >= 502 /\ statusCode < 504

\* const defaultRetryIf = r => (r.statusCode >= 502 && r.statusCode <= 504)
defaultRetryIf(statusCode) == statusCode >= 502 /\ statusCode <= 504

\* response => response.statusCode !== 200
retryIfNot200(statusCode) == statusCode # 200

\* task.retryIf(response), with retryIf: options.retryIf || defaultRetryIf
retryIf(opts, statusCode) ==
  IF opts.retryIf = "not200" THEN retryIfNot200(statusCode) ELSE defaultRetryIf(statusCode)

\* const badResponse = response && task.retryIf(response)
badResponse(opts, out) == out.hasResponse /\ retryIf(opts, out.statusCode)

\* error || badResponse
failed(opts, out) == out.error # "null" \/ badResponse(opts, out)

\* const retryable = badResponse || error.code === 'ECONNRESET'
retryable(opts, out) == badResponse(opts, out) \/ out.error = "ECONNRESET"

\* mutant: the retry bound off by one
shouldRetryOffByOne(opts, out, taskRetries) ==
  retryable(opts, out) /\ taskRetries <= MAX_RETRIES

\* retryable && task.retries < MAX_RETRIES
shouldRetry(opts, out, taskRetries) == retryable(opts, out) /\ taskRetries < MAX_RETRIES

\* mutant: options.retry ignored
initialRetriesAlwaysZero(opts) == 0

\* retries: (options.retry === false) ? MAX_RETRIES : 0
initialRetries(opts) == IF opts.retry = FALSE THEN MAX_RETRIES ELSE 0

\* mutant: options.immediate ignored
enqueueAlwaysPush(q, task, opts) == Append(q, task)

\* queue[options.immediate ? 'unshift' : 'push'](task)
enqueue(q, task, opts) == IF opts.immediate THEN <<task>> \o q ELSE Append(q, task)

\* a retry that would put the task behind the tasks already waiting
unshiftAtTail(q, task) == Append(q, task)

\* a retry that would queue the task twice
unshiftTwice(q, task) == <<task, task>> \o q

\* queue.unshift(task)
unshift(q, task) == <<task>> \o q

\* sleep(sleepFor * task.retries * 2): the delay of the backoff
backoffTime(taskRetries) == SLEEP_FOR * taskRetries * 2

\* what a promise is settled with: null, an error or a response
NullValue == [is |-> "null", code |-> "null", statusCode |-> 0]
ErrorValue(code) == [is |-> "error", code |-> code, statusCode |-> 0]
ResponseValue(statusCode) == [is |-> "response", code |-> "null", statusCode |-> statusCode]

\* task.reject(error): the value of error, which is null when the request
\* called back with a response
rejectValue(out) == IF out.error = "null" THEN NullValue ELSE ErrorValue(out.error)

\* task.resolve(response)
resolveValue(out) == ResponseValue(out.statusCode)

\* mutant: the socket guard off by one
mayDispatchOffByOne(avail, slp) == ~(avail < 0 \/ slp)

\* if (availableSockets <= 0 || sleeping) return;
mayDispatch(avail, slp) == ~(avail <= 0 \/ slp)

\* ------------------------------------------------------------------------
\* Timers: setTimeout callbacks not yet run, with the delay left
\* ------------------------------------------------------------------------
Timer(kind, rem) == [kind |-> kind, rem |-> rem]

dueTimers == {tm \in BagToSet(timers) : tm.rem = 0}

\* every pending timer one period later
elapse(bag) ==
  LET later(tm) == [tm EXCEPT !.rem = @ - SLEEP_FOR]
      earlier(tm) == [tm EXCEPT !.rem = @ + SLEEP_FOR]
  IN [tm \in {later(x) : x \in BagToSet(bag)} |-> bag[earlier(tm)]]

NoEvent == [kind |-> "none"]

\* ------------------------------------------------------------------------
\* The Versionista instance: calls, the login promise, promise reactions
\* ------------------------------------------------------------------------
CallIds == 1..NumCalls

\* the API methods called: one that makes a single request and the one that
\* chains three; every method is wrapped the same way
Methods == {"getVersions", "getVersionDiff"}

\* the arguments of a call besides the URL: getVersionDiff's diffType, which
\* may be left out, and getVersionRawContent's retries
ArgsOf(method) ==
  CASE method = "getVersionDiff" -> [diffType : {"undefined", "text"}, retries : {0}]
    [] method = "getVersionRawContent" -> [diffType : {"none"}, retries : 0..DEFAULT_RETRIES]
    [] OTHER -> {[diffType |-> "none", retries |-> 0]}

\* the body of the last response of a method ("none": not received): of
\* getVersionDiff's payload, empty or not; of getVersionRawContent's content,
\* empty, the "Cache expired" page, another text, or binary data
DiffBodies == {"", "text"}
ContentBodies == {"", "<h1>Cache expired</h1>", "text", "buffer"}

\* the bodies of the responses of the APIs, URLs in parts: a path on the
\* host that served the API, or a full URL
UrlBodies == {<<"/content">>, <<"http://files.example", "/content">>}

\* response.request.uri of a comparison response besides its host: the
\* path and the query, null if there is none
Uris == [pathname : {"/pa/FzGDbLeKO8hX/"}, search : {"null", "?a=1"}]

\* a login response as logIn reads it: is it parsed as HTML, does its body
\* match /log in/i
LoginBodies == [html : BOOLEAN, marker : BOOLEAN]
NoBody == [html |-> FALSE, marker |-> FALSE]

\* response.request.uri.host of a comparison response: the origin host, one
\* of its subdomains, or the diff host
Hosts == {"versionista.com", "app.versionista.com", "diffhost.example"}
NoHost == "none"

\* this._loggedIn before the first call of logIn, and once it is set: the
\* task of the login request, the state of the promise, what it is settled
\* with and the response body the handler saw
NotLoggedIn == [state |-> "unset", task |-> 0, value |-> NullValue, body |-> NoBody]
LoginPromise(task) == [state |-> "pending", task |-> task, value |-> NullValue,
                       body |-> NoBody]

\* a call not yet made.  Of a call made: its method and arguments, how far
\* it is, the login promise it waits for, what it settled with; the status
\* and host of the comparison response; the number of times the
\* implementation has started, the parameter retries of its latest
\* invocation, the body of the last response; the status of the response
\* its API request (diff host's or content API's) got last
NoCall == [method |-> "none", stage |-> "idle", login |-> 0, result |-> NullValue,
           statusCode |-> 0, host |-> NoHost, args |-> [diffType |-> "none", retries |-> 0],
           attempts |-> 0,
           retries |-> 0, body |-> "none", apiStatus |-> 0]

\* a request not submitted; otherwise the call it was made for, which of the
\* call's requests it is, and its options url and immediate
NoPurpose == [call |-> 0, what |-> "none", url |-> <<>>, immediate |-> FALSE]
NoReaction == [task |-> 0, did |-> "none", value |-> NullValue]

\* no listing fetched (a body that is not an array), no lineage built
NoVersions == [isArray |-> FALSE, items |-> <<>>]
NotBuilt == [is |-> "none", versions |-> <<>>]

\* ------------------------------------------------------------------------
\* Initial state: createClient() has returned
\* ------------------------------------------------------------------------
clientInit ==
  /\ untilSleep = SleepEvery
  /\ sleeping = FALSE
  /\ availableSockets = MaxSockets
  /\ queue = <<>>
  /\ nextId = 1
  /\ options = [t \in TaskIds |-> NoOptions]
  /\ retries = [t \in TaskIds |-> 0]
  /\ state = [t \in TaskIds |-> "new"]
  /\ timers = EmptyBag
  /\ tickPending = FALSE
  /\ dispatches = [t \in TaskIds |-> 0]
  /\ sinceCooldown = -1
  /\ awake = 0
  /\ last = NoEvent
  /\ backoffLeft = [t \in TaskIds |-> 0]

\* new Versionista(options): nobody has logged in or called anything
apiInit ==
  /\ loggedIn = NotLoggedIn
  /\ calls = [c \in CallIds |-> NoCall]
  /\ purpose = [t \in TaskIds |-> NoPurpose]
  /\ pending = NoReaction

Init ==
  /\ clientInit
  /\ apiInit
  /\ rawVersions = NoVersions
  /\ lineage = NotBuilt
  /\ response = <<>>
  /\ result = <<>>

\* mutant: the task is handed to the request without taking a socket
doNextRequestKeepsSocket(q, st, avail, slp) ==
  IF mayDispatch(avail, slp) /\ q # <<>>
  THEN /\ queue' = Tail(q)
       /\ availableSockets' = avail
       /\ state' = [st EXCEPT ![Head(q)] = "inflight"]
       /\ dispatches' = [dispatches EXCEPT ![Head(q)] = @ + 1]
       /\ backoffLeft' = [backoffLeft EXCEPT ![Head(q)] = 0]
  ELSE /\ queue' = q
       /\ availableSockets' = avail
       /\ state' = st
       /\ dispatches' = dispatches
       /\ backoffLeft' = backoffLeft

\* ------------------------------------------------------------------------
\* function doNextRequest (), run on the queue q, task states st, free
\* sockets avail and flag slp the calling callback has produced
\* ------------------------------------------------------------------------
doNextRequest(q, st, avail, slp) ==
  IF mayDispatch(avail, slp) /\ q # <<>>
  THEN /\ queue' = Tail(q)
       /\ availableSockets' = avail - 1
       /\ state' = [st EXCEPT ![Head(q)] = "inflight"]
       /\ dispatches' = [dispatches EXCEPT ![Head(q)] = @ + 1]
       /\ backoffLeft' = [backoffLeft EXCEPT ![Head(q)] = 0]
  ELSE /\ queue' = q
       /\ availableSockets' = avail
       /\ state' = st
       /\ dispatches' = dispatches
       /\ backoffLeft' = backoffLeft

\* ------------------------------------------------------------------------
\* The function createClient returns: a call with options opts
\* ------------------------------------------------------------------------
Submit(opts) ==
  /\ ~tickPending
  /\ nextId <= MaxTasks
  /\ nextId' = nextId + 1
  /\ options' = [options EXCEPT ![nextId] = opts]
  /\ retries' = [retries EXCEPT ![nextId] = initialRetries(opts)]
  /\ doNextRequest(enqueue(queue, nextId, opts),
                   [state EXCEPT ![nextId] = "queued"], availableSockets, sleeping)
  /\ last' = NoEvent
  /\ UNCHANGED <<untilSleep, sleeping, timers, tickPending, sinceCooldown, awake>>

\* ------------------------------------------------------------------------
\* The callback of versionistaRequest(task.options, (error, response) => ...)
\* ------------------------------------------------------------------------
\* sleepIfNecessary(): does it call sleep()?
forcedCooldown ==
  /\ ~(sleeping \/ SleepEvery <= 0)
  /\ (IF untilSleep > 0 THEN untilSleep - 1 ELSE untilSleep) = 0

\* mutant: completions are counted while the scheduler sleeps
untilSleepAfterCountsAsleep ==
  IF SleepEvery <= 0 THEN untilSleep
  ELSE IF untilSleep > 0 THEN untilSleep - 1 ELSE untilSleep

\* sleepIfNecessary(): untilSleep afterwards
untilSleepAfter ==
  IF sleeping \/ SleepEvery <= 0 THEN untilSleep
  ELSE IF untilSleep > 0 THEN untilSleep - 1 ELSE untilSleep

\* the record of a request callback: the task, what the request called back
\* with, the task's counters when it did, what the callback did with it,
\* whether it began a forced cooldown and, if so, the number of completions
\* since the previous forced cooldown began, this one included (-1: none before)
Event(task, out, did, value) ==
  [kind |-> "complete", task |-> task, error |-> out.error, statusCode |-> out.statusCode,
   opts |-> options[task], retries |-> retries[task], dispatches |-> dispatches[task],
   did |-> did, value |-> value, cooldown |-> forcedCooldown,
   gap |-> IF sinceCooldown = -1 \/ sinceCooldown > SleepEvery THEN sinceCooldown
           ELSE sinceCooldown + 1]

\* mutant: settling a task empties the queue
settleAbortsQueue(task, how) ==
  /\ state' = [state EXCEPT ![task] = how]
  /\ options' = [options EXCEPT ![task] = NoOptions]
  /\ retries' = [retries EXCEPT ![task] = 0]
  /\ dispatches' = [dispatches EXCEPT ![task] = 0]
  /\ queue' = <<>>

\* a settled task is no longer referenced by the scheduler: its fields are gone
settle(task, how) ==
  /\ state' = [state EXCEPT ![task] = how]
  /\ options' = [options EXCEPT ![task] = NoOptions]
  /\ retries' = [retries EXCEPT ![task] = 0]
  /\ dispatches' = [dispatches EXCEPT ![task] = 0]
  /\ queue' = queue

Complete(task, out) ==
  /\ ~tickPending
  /\ state[task] = "inflight"
  /\ untilSleep' = untilSleepAfter
  /\ LET retry == failed(options[task], out)
                  /\ shouldRetry(options[task], out, retries[task])
         cool  == IF forcedCooldown THEN SetToBag({Timer("cooldown", SLEEP_FOR)})
                  ELSE EmptyBag
         back  == IF retry THEN SetToBag({Timer("backoff", backoffTime(retries[task] + 1))})
                  ELSE EmptyBag
     IN /\ availableSockets' = availableSockets + 1
        /\ sleeping' = (sleeping \/ forcedCooldown \/ retry)
        /\ timers' = timers (+) cool (+) back
        /\ IF retry
           THEN /\ retries' = [retries EXCEPT ![task] = @ + 1]
                /\ queue' = unshift(queue, task)
                /\ state' = [state EXCEPT ![task] = "queued"]
                /\ last' = Event(task, out, "retry", NullValue)
                /\ backoffLeft' = [backoffLeft EXCEPT
                                     ![task] = backoffTime(retries[task] + 1)]
                /\ UNCHANGED <<options, dispatches>>
           ELSE IF failed(options[task], out)
           THEN /\ settle(task, "rejected")
                /\ last' = Event(task, out, "reject", rejectValue(out))
                /\ backoffLeft' = backoffLeft
           ELSE /\ settle(task, "resolved")
                /\ last' = Event(task, out, "resolve", resolveValue(out))
                /\ backoffLeft' = backoffLeft
        /\ sinceCooldown' = IF forcedCooldown THEN 0
                            ELSE IF sinceCooldown = -1 \/ sinceCooldown > SleepEvery
                            THEN sinceCooldown
                            ELSE sinceCooldown + 1
        /\ awake' = IF sleeping THEN awake ELSE awake + 1
  /\ tickPending' = TRUE
  /\ UNCHANGED <<nextId>>

\* process.nextTick(doNextRequest), run right after the callback that scheduled it
NextTick ==
  /\ tickPending
  /\ tickPending' = FALSE
  /\ doNextRequest(queue, state, availableSockets, sleeping)
  /\ last' = NoEvent
  /\ UNCHANGED <<untilSleep, sleeping, nextId, options, retries, timers,
                 sinceCooldown, awake>>

\* mutant: the timer callback wakes the scheduler but does not call
\* doNextRequest()
FireTimerNoDispatch(tm) ==
  /\ ~tickPending
  /\ tm \in dueTimers
  /\ timers' = timers (-) SetToBag({tm})
  /\ sleeping' = FALSE
  /\ untilSleep' = SleepEvery
  /\ awake' = 0
  /\ last' = NoEvent
  /\ UNCHANGED <<availableSockets, queue, state, dispatches, nextId, options, retries,
                 tickPending, sinceCooldown, backoffLeft>>

\* the setTimeout callback of sleep(): sleeping = false; untilSleep = sleepEvery;
\* doNextRequest()
FireTimer(tm) ==
  /\ ~tickPending
  /\ tm \in dueTimers
  /\ timers' = timers (-) SetToBag({tm})
  /\ sleeping' = FALSE
  /\ untilSleep' = SleepEvery
  /\ doNextRequest(queue, state, availableSockets, FALSE)
  /\ last' = NoEvent
  /\ awake' = 0
  /\ UNCHANGED <<nextId, options, retries, tickPending, sinceCooldown>>

\* one sleepFor period passes; a timer that is due runs before time moves on
Advance ==
  /\ ~tickPending
  /\ timers # EmptyBag
  /\ dueTimers = {}
  /\ timers' = elapse(timers)
  /\ backoffLeft' = [t \in TaskIds |->
                       IF backoffLeft[t] > 0 THEN backoffLeft[t] - SLEEP_FOR ELSE 0]
  /\ last' = NoEvent
  /\ UNCHANGED <<untilSleep, sleeping, availableSockets, queue, nextId, options,
                 retries, state, tickPending, dispatches, sinceCooldown, awake>>

\* the client used on its own: callers submit up to NumTasks tasks
Next ==
  \/ \E opts \in Options :
       nextId <= NumTasks /\ Submit(opts) /\ UNCHANGED <<apiVars, lineageVars>>
  \/ \E task \in TaskIds, out \in Outcomes :
       Complete(task, out) /\ UNCHANGED <<apiVars, lineageVars>>
  \/ NextTick /\ UNCHANGED <<apiVars, lineageVars>>
  \/ \E tm \in BagToSet(timers) : FireTimer(tm) /\ UNCHANGED <<apiVars, lineageVars>>
  \/ Advance /\ UNCHANGED <<apiVars, lineageVars>>

Spec == Init /\ [][Next]_vars

\* Every dispatched request calls back, every timer fires (time passes) and
\* every scheduled nextTick callback runs.  Callers need not submit.
Fairness ==
  /\ \A task \in TaskIds :
       WF_vars(\E out \in Outcomes :
                 Complete(task, out) /\ UNCHANGED <<apiVars, lineageVars>>)
  /\ WF_vars(NextTick /\ UNCHANGED <<apiVars, lineageVars>>)
  /\ WF_vars(\E tm \in BagToSet(timers) :
               FireTimer(tm) /\ UNCHANGED <<apiVars, lineageVars>>)
  /\ WF_vars(Advance /\ UNCHANGED <<apiVars, lineageVars>>)

\* the behaviours in which callers submit at most NumLiveTasks tasks
NextLive ==
  \/ \E opts \in Options :
       nextId <= NumLiveTasks /\ Submit(opts) /\ UNCHANGED <<apiVars, lineageVars>>
  \/ \E task \in TaskIds, out \in Outcomes :
       Complete(task, out) /\ UNCHANGED <<apiVars, lineageVars>>
  \/ NextTick /\ UNCHANGED <<apiVars, lineageVars>>
  \/ \E tm \in BagToSet(timers) : FireTimer(tm) /\ UNCHANGED <<apiVars, lineageVars>>
  \/ Advance /\ UNCHANGED <<apiVars, lineageVars>>

FairSpec == Init /\ [][NextLive]_vars /\ Fairness

TypeOK ==
  /\ untilSleep \in 0..SleepEvery
  /\ sleeping \in BOOLEAN
  /\ availableSockets \in 0..MaxSockets
  /\ nextId \in 1..(MaxTasks + 1)
  /\ \A t \in TaskIds : state[t] \in {"new", "queued", "inflight", "resolved", "rejected"}
  /\ \A t \in TaskIds : backoffLeft[t] \in 0..backoffTime(MAX_RETRIES)

\* ------------------------------------------------------------------------
\* lib/versionista.js: the login and the API methods that wait for it
\* ------------------------------------------------------------------------
\* the errors the API layer throws
AuthenticationError == ErrorValue("Could not log in")
TypeErrorValue == ErrorValue("TypeError")
InvalidUrlError == ErrorValue("VERSIONISTA:INVALID_URL")
DiffApiError == ErrorValue("VERSIONISTA:API_ERROR")
NoContentError == ErrorValue("VERSIONISTA:NO_VERSION_CONTENT")

\* what the methods resolve to: a list of versions, a diff object
VersionsValue == [is |-> "versions", code |-> "null", statusCode |-> 0]
DiffValue == [is |-> "diff", code |-> "null", statusCode |-> 0]
ContentValue == [is |-> "content", code |-> "null", statusCode |-> 0]

\* the options of the requests: {url, ...} and {url, ..., immediate: true};
\* none of them passes retry or retryIf
plainRequest == Opt(FALSE, TRUE, "default")
immediateRequest == Opt(TRUE, TRUE, "default")

\* mutant: the memoized promise is not consulted
needsLogInAlways(li) == TRUE

\* if (!this._loggedIn)
needsLogIn(li) == li.state = "unset"

\* request(): options.parseBody && mightBeHtml, parseBody being true for the
\* login request; then the promise resolves to a window carrying
\* httpResponse, otherwise to the response itself
returnsWindow(body) == body.html

\* window.httpResponse.body.match(/log in/i)
matchesLogIn(body) == body.marker

\* the handler logIn attaches to its request, on a response with this body:
\* reading window.httpResponse.body of a response that is not a window
\* throws a TypeError, a body with the marker throws 'Could not log in'
logInThen(li, body) ==
  IF ~returnsWindow(body)
  THEN [li EXCEPT !.state = "rejected", !.value = TypeErrorValue, !.body = body]
  ELSE IF matchesLogIn(body)
  THEN [li EXCEPT !.state = "rejected", !.value = AuthenticationError, !.body = body]
  ELSE [li EXCEPT !.state = "resolved", !.body = body]

\* mutant: the implementation runs however the login ended
loginSucceededOrFailed(li) == li.state \in {"resolved", "rejected"}

\* this.logIn().then(() => implementation.apply(this, arguments)): the
\* handler runs only when the login promise is fulfilled
loginSucceeded(li) == li.state = "resolved"

\* actualUri.host.includes('versionista.com')
includesVersionista(host) == host \in {"versionista.com", "app.versionista.com"}

\* mutant: the host of the final URL is not looked at
invalidComparisonStatusOnly(statusCode, host) == statusCode >= 400

\* if (status >= 400 || actualUri.host.includes('versionista.com'))
invalidComparison(statusCode, host) == statusCode >= 400 \/ includesVersionista(host)

\* mutant: no response of an API is taken for an error
apiFailedNever(statusCode) == FALSE

\* mutant: only server errors are taken for errors
apiFailedServerErrors(statusCode) == statusCode >= 500

\* if (response.statusCode >= 400), on the response of the diff host's API
\* and of the content API
apiFailed(statusCode) == statusCode >= 400

\* mutant: the diff type is passed on as given
diffTypeAsGiven(diffType) == diffType

\* diffType = diffType || 'only'
diffTypeOrDefault(diffType) == IF diffType = "undefined" THEN "only" ELSE diffType

\* `${diffHost}/api/ip_url${actualUri.pathname}${diffType}${actualUri.search || ''}`
\* with diffHost = `${actualUri.protocol}//${actualUri.host}`
diffApiUrl(host, uri, diffType) ==
  <<"http://", host, "/api/ip_url", uri.pathname, diffTypeOrDefault(diffType),
    IF uri.search = "null" THEN "" ELSE uri.search>>

\* the URL in the body of an API response, prefixed with the host unless it
\* matches /^https?:\/\//
urlOfBody(host, body) == IF Len(body) = 2 THEN body ELSE <<"http://", host>> \o body

\* mutant: no body is taken for empty
isEmptyNever(body) == FALSE

\* if (!response.body)
isEmpty(body) == body = ""

\* mutant: the placeholder is retried whatever retries is
retriesLeftAlways(left) == TRUE

\* if (retries)
retriesLeft(left) == left # 0

\* /^<h\d>Cache expired<\/h\d>/i.test(source), on a body that request()
\* turned into a string: binary data that is not HTML stays a Buffer
cacheExpired(body) == body = "<h1>Cache expired</h1>"

\* the first request of a method's implementation
firstRequest(method) ==
  CASE method = "getVersionDiff" -> "comparison"
    [] method = "getVersionRawContent" -> "contentApi"
    [] OTHER -> "versions"

\* how many requests a method submits at most, and how many a call may
\* still submit
requestsOf(method) ==
  CASE method = "getVersionDiff" -> 3
    [] method = "getVersionRawContent" -> 2 * (DEFAULT_RETRIES + 1)
    [] OTHER -> 1
toSubmit(call) ==
  CASE call.stage = "login" /\ call.method = "getVersionRawContent" ->
         2 * (call.retries + 1)
    [] call.stage = "login" /\ call.method # "getVersionRawContent" ->
         requestsOf(call.method)
    [] call.stage = "comparison" -> 2
    [] call.stage = "api" -> 1
    [] call.stage = "contentApi" -> 2 * call.retries + 2
    [] call.stage = "content" -> 2 * call.retries + 1
    [] OTHER -> 0

RECURSIVE outstanding(_)
outstanding(S) ==
  IF S = {} THEN 0
  ELSE LET c == CHOOSE x \in S : TRUE
       IN toSubmit(calls[c]) + outstanding(S \ {c})

\* a call is made only if the client can hold every request it may lead to
roomFor(method, budget) ==
  (nextId - 1) + outstanding(CallIds) + requestsOf(method)
    + (IF needsLogIn(loggedIn) THEN 1 ELSE 0)
    <= budget

\* promise reactions run before the event loop takes the next callback:
\* a settled task's handlers, and the handlers waiting for a settled login
loginSettled == loggedIn.state \in {"resolved", "rejected"}
microtask ==
  \/ pending # NoReaction
  \/ loginSettled /\ \E c \in CallIds : calls[c].stage = "login"

\* a step of the API layer that submits nothing to the client
noSubmit ==
  /\ last' = NoEvent
  /\ UNCHANGED <<untilSleep, sleeping, availableSockets, queue, nextId, options,
                 retries, state, timers, tickPending, dispatches, sinceCooldown, awake,
                 backoffLeft>>

\* this.request(options) made for call c (0: the login) as its request what
request(c, what, url, opts) ==
  /\ Submit(opts)
  /\ purpose' = [purpose EXCEPT ![nextId] = [call |-> c, what |-> what, url |-> url,
                                             immediate |-> opts.immediate]]

\* Versionista.prototype[method]: this.logIn().then(...).  logIn submits the
\* login request unless this._loggedIn is set, and returns this._loggedIn
Call(c, method) ==
  /\ ~tickPending
  /\ ~microtask
  /\ calls[c].stage = "idle"
  /\ \A d \in CallIds : d < c => calls[d].stage # "idle"
  /\ IF needsLogIn(loggedIn)
     THEN /\ request(0, "login", <<"login">>, plainRequest)
          /\ loggedIn' = LoginPromise(nextId)
     ELSE /\ noSubmit
          /\ UNCHANGED <<purpose, loggedIn>>
  /\ \E args \in ArgsOf(method) :
       calls' = [calls EXCEPT ![c] = [NoCall EXCEPT !.method = method, !.stage = "login",
                                                    !.login = loggedIn'.task,
                                                    !.args = args,
                                                    !.retries = args.retries]]
  /\ UNCHANGED <<pending, lineageVars>>

\* the request callback under a Versionista instance: task.resolve and
\* task.reject queue the reaction of whoever submitted the task
ApiComplete(task, out) ==
  /\ ~microtask
  /\ Complete(task, out)
  /\ pending' = IF last'.did \in {"resolve", "reject"}
                THEN [task |-> task, did |-> last'.did, value |-> last'.value]
                ELSE NoReaction
  /\ UNCHANGED <<loggedIn, calls, purpose, lineageVars>>

\* the handler of logIn, or the rejection of its request passing through
LoginThen ==
  /\ ~tickPending
  /\ pending # NoReaction
  /\ purpose[pending.task].what = "login"
  /\ IF pending.did = "reject"
     THEN loggedIn' = [loggedIn EXCEPT !.state = "rejected", !.value = pending.value]
     ELSE \E body \in LoginBodies : loggedIn' = logInThen(loggedIn, body)
  /\ pending' = NoReaction
  /\ noSubmit
  /\ UNCHANGED <<calls, purpose, lineageVars>>

\* the reaction of a wrapper to the settled login, in the order of the calls:
\* the implementation starts, or the call fails with the login's error
Proceed(c) ==
  /\ ~tickPending
  /\ pending = NoReaction
  /\ loginSettled
  /\ calls[c].stage = "login"
  /\ \A d \in CallIds : d < c => calls[d].stage # "login"
  /\ IF loginSucceeded(loggedIn)
     THEN /\ request(c, firstRequest(calls[c].method), <<"url">>, plainRequest)
          /\ calls' = [calls EXCEPT ![c].stage = firstRequest(calls[c].method),
                                    ![c].attempts = @ + 1]
     ELSE /\ noSubmit
          /\ purpose' = purpose
          /\ calls' = [calls EXCEPT ![c].stage = "failed", ![c].result = loggedIn.value]
  /\ UNCHANGED <<loggedIn, pending, lineageVars>>

\* the reaction queued is that of call c's request what, with a response
reacting(c, what) ==
  /\ ~tickPending
  /\ pending.did = "resolve"
  /\ purpose[pending.task].call = c
  /\ purpose[pending.task].what = what

\* a request of call c was rejected: no handler runs, the call fails with
\* what the task was rejected with
Rejected(c) ==
  /\ ~tickPending
  /\ pending.did = "reject"
  /\ purpose[pending.task].call = c
  /\ calls' = [calls EXCEPT ![c].stage = "failed", ![c].result = pending.value]
  /\ pending' = NoReaction
  /\ noSubmit
  /\ UNCHANGED <<loggedIn, purpose, lineageVars>>

\* getVersions: the handler of the listing request
VersionsThen(c) ==
  /\ reacting(c, "versions")
  /\ calls' = [calls EXCEPT ![c].stage = "done", ![c].result = VersionsValue]
  /\ pending' = NoReaction
  /\ noSubmit
  /\ UNCHANGED <<loggedIn, purpose, lineageVars>>

\* getVersionDiff: the handler of the comparison request, whose response has
\* followed the redirects to host
ComparisonThen(c) ==
  /\ reacting(c, "comparison")
  /\ \E host \in Hosts :
       LET status == pending.value.statusCode
       IN IF invalidComparison(status, host)
          THEN /\ noSubmit
               /\ purpose' = purpose
               /\ calls' = [calls EXCEPT ![c].stage = "failed",
                                         ![c].result = InvalidUrlError,
                                         ![c].statusCode = status, ![c].host = host]
          ELSE /\ \E uri \in Uris :
                    request(c, "api", diffApiUrl(host, uri, calls[c].args.diffType),
                            immediateRequest)
               /\ calls' = [calls EXCEPT ![c].stage = "api",
                                         ![c].statusCode = status, ![c].host = host]
  /\ pending' = NoReaction
  /\ UNCHANGED <<loggedIn, lineageVars>>

\* getVersionDiff: the handler of the diff host's API request
ApiThen(c) ==
  /\ reacting(c, "api")
  /\ IF apiFailed(pending.value.statusCode)
     THEN /\ noSubmit
          /\ purpose' = purpose
          /\ calls' = [calls EXCEPT ![c].stage = "failed", ![c].result = DiffApiError,
                                    ![c].apiStatus = pending.value.statusCode]
     ELSE /\ \E body \in UrlBodies :
               request(c, "payload", urlOfBody(calls[c].host, body), immediateRequest)
          /\ calls' = [calls EXCEPT ![c].stage = "payload",
                                    ![c].apiStatus = pending.value.statusCode]
  /\ pending' = NoReaction
  /\ UNCHANGED <<loggedIn, lineageVars>>

\* getVersionDiff: the handler of the payload request; if (!response.body)
\* return null
PayloadThen(c) ==
  /\ reacting(c, "payload")
  /\ \E body \in DiffBodies :
       calls' = [calls EXCEPT ![c].stage = "done", ![c].body = body,
                              ![c].result = IF isEmpty(body) THEN NullValue
                                            ELSE DiffValue]
  /\ pending' = NoReaction
  /\ noSubmit
  /\ UNCHANGED <<loggedIn, purpose, lineageVars>>

\* getVersionRawContent: the handler of the content API's request
ContentApiThen(c) ==
  /\ reacting(c, "contentApi")
  /\ IF apiFailed(pending.value.statusCode)
     THEN /\ noSubmit
          /\ purpose' = purpose
          /\ calls' = [calls EXCEPT ![c].stage = "failed", ![c].result = InvalidUrlError,
                                    ![c].apiStatus = pending.value.statusCode]
     ELSE /\ \E body \in UrlBodies :
               request(c, "content", urlOfBody("versionista.com", body),
                       immediateRequest)
          /\ calls' = [calls EXCEPT ![c].stage = "content",
                                    ![c].apiStatus = pending.value.statusCode]
  /\ pending' = NoReaction
  /\ UNCHANGED <<loggedIn, lineageVars>>

\* getVersionRawContent: the handler of the content request.  On the
\* placeholder with retries left the method calls itself through its
\* wrapper, which waits for the login promise again
ContentThen(c) ==
  /\ reacting(c, "content")
  /\ \E body \in ContentBodies :
       calls' = [calls EXCEPT
         ![c].body = body,
         ![c].stage = IF ~cacheExpired(body) THEN "done"
                      ELSE IF retriesLeft(calls[c].retries) THEN "login"
                      ELSE "failed",
         ![c].result = IF ~cacheExpired(body) THEN ContentValue
                       ELSE IF retriesLeft(calls[c].retries) THEN NullValue
                       ELSE NoContentError,
         ![c].retries = IF cacheExpired(body) /\ retriesLeft(@) THEN @ - 1 ELSE @]
  /\ pending' = NoReaction
  /\ noSubmit
  /\ UNCHANGED <<loggedIn, purpose, lineageVars>>

\* a Versionista instance: API calls, the callbacks of its client, and the
\* promise reactions in between
ApiNext ==
  \/ \E c \in CallIds, method \in Methods : roomFor(method, NumApiTasks) /\ Call(c, method)
  \/ \E task \in TaskIds, out \in Outcomes : ApiComplete(task, out)
  \/ NextTick /\ UNCHANGED <<apiVars, lineageVars>>
  \/ LoginThen
  \/ \E c \in CallIds : Proceed(c)
  \/ \E c \in CallIds : Rejected(c)
  \/ \E c \in CallIds : VersionsThen(c)
  \/ \E c \in CallIds : ComparisonThen(c)
  \/ \E c \in CallIds : ApiThen(c)
  \/ \E c \in CallIds : PayloadThen(c)
  \/ \E tm \in BagToSet(timers) :
       ~microtask /\ FireTimer(tm) /\ UNCHANGED <<apiVars, lineageVars>>
  \/ ~microtask /\ Advance /\ UNCHANGED <<apiVars, lineageVars>>

ApiSpec == Init /\ [][ApiNext]_vars

\* a Versionista instance on which getVersionRawContent is called once
RawNext ==
  \/ roomFor("getVersionRawContent", MaxTasks) /\ Call(1, "getVersionRawContent")
  \/ \E task \in TaskIds, out \in Outcomes : ApiComplete(task, out)
  \/ NextTick /\ UNCHANGED <<apiVars, lineageVars>>
  \/ LoginThen
  \/ Proceed(1)
  \/ Rejected(1)
  \/ ContentApiThen(1)
  \/ ContentThen(1)
  \/ \E tm \in BagToSet(timers) :
       ~microtask /\ FireTimer(tm) /\ UNCHANGED <<apiVars, lineageVars>>
  \/ ~microtask /\ Advance /\ UNCHANGED <<apiVars, lineageVars>>

RawSpec == Init /\ [][RawNext]_vars

\* a Versionista instance on which getVersionDiff is called and, while it
\* runs, getVersions; a request times out or gets a response, which is a
\* 200 or, to a first attempt, a 503
FollowUpNext ==
  \/ roomFor("getVersionDiff", NumFollowUpTasks) /\ Call(1, "getVersionDiff")
  \/ roomFor("getVersions", NumFollowUpTasks) /\ Call(2, "getVersions")
  \/ \E task \in TaskIds :
       \E out \in {o \in Outcomes : o.statusCode \in {200, 503} \/ o.error = "ETIMEDOUT"} :
         (out.statusCode = 503 => retries[task] = 0) /\ ApiComplete(task, out)
  \/ NextTick /\ UNCHANGED <<apiVars, lineageVars>>
  \/ LoginThen
  \/ \E c \in CallIds : Proceed(c)
  \/ \E c \in CallIds : Rejected(c)
  \/ VersionsThen(2)
  \/ ComparisonThen(1)
  \/ ApiThen(1)
  \/ PayloadThen(1)
  \/ \E tm \in BagToSet(timers) :
       ~microtask /\ FireTimer(tm) /\ UNCHANGED <<apiVars, lineageVars>>
  \/ ~microtask /\ Advance /\ UNCHANGED <<apiVars, lineageVars>>

FollowUpSpec == Init /\ [][FollowUpNext]_vars

\* ------------------------------------------------------------------------
\* lib/versionista.js, getVersions: from the version listing to the lineage
\* ------------------------------------------------------------------------
\* the page whose versions are listed
page == [siteId |-> 74283, pageId |-> 4170450]

\* apiVersion.id of the record at place i of the listing: ids are unique
versionIdAt(i) == 100 + i

\* apiVersion.rc, a string like '200 OK'
RcTexts == {"200 OK", "404 Not Found", "OK"}

\* what varies in a record of the listing: the capture time, the status
\* text, the deleted flag
RawFields == [fst : 1..MaxTime, rc : RcTexts, deleted : BOOLEAN]

\* response.body when it is an array: n records with the fields f gives them
listing(n, f) ==
  [isArray |-> TRUE,
   items |-> [i \in 1..n |-> [id |-> versionIdAt(i), fst |-> f[i].fst, rc |-> f[i].rc,
                               deleted |-> f[i].deleted]]]

\* parseInt(apiVersion.rc, 10) on the status texts; NaN is -1
NaN == -1
parseInt10(rc) ==
  CASE rc = "200 OK" -> 200
    [] rc = "404 Not Found" -> 404
    [] OTHER -> NaN

\* status.toString(10)
toString10(status) ==
  CASE status = 200 -> "200"
    [] status = 404 -> "404"
    [] OTHER -> "NaN"

\* a property that is null, a link that was never set
Null == "null"
Absent == <<>>
NoDate == -1

\* new Date(apiVersion.fst * 1000), as milliseconds
toDate(fst) == fst * 1000

\* mutant: only server errors get an errorCode
errorCodeOfServerErrors(status) ==
  IF status # 0 /\ status >= 500 THEN toString10(status) ELSE Null

\* errorCode: (status && status >= 400) ? status.toString(10) : null
errorCodeOf(status) == IF status # 0 /\ status >= 400 THEN toString10(status) ELSE Null

\* mutant: the two ids of the link exchanged
formatComparisonUrlSwapped(version, compareToId) ==
  <<"https://versionista.com/", version.siteId, "/", version.pageId, "/",
    compareToId, ":", version.versionId, "/">>

\* function formatComparisonUrl(version, compareTo = {versionId: 0}), given
\* compareTo.versionId; the template string is kept as its parts
formatComparisonUrl(version, compareToId) ==
  <<"https://versionista.com/", version.siteId, "/", version.pageId, "/",
    version.versionId, ":", compareToId, "/">>

\* mutant: the deleted records are kept
notDeletedKeepsAll(items) == items

\* .filter(version => !version.deleted)
notDeleted(items) == SelectSeq(items, LAMBDA apiVersion : ~apiVersion.deleted)

\* the first .map: Object.assign({}, page, {...}) of one record; the links
\* are not set yet
toVersion(apiVersion) ==
  [siteId |-> page.siteId, pageId |-> page.pageId,
   versionId |-> apiVersion.id,
   url |-> <<"https://versionista.com/", page.siteId, "/", page.pageId, "/",
             apiVersion.id, "/">>,
   date |-> toDate(apiVersion.fst),
   status |-> parseInt10(apiVersion.rc),
   errorCode |-> errorCodeOf(parseInt10(apiVersion.rc)),
   diffWithPreviousUrl |-> Absent, diffWithPreviousDate |-> NoDate,
   diffWithFirstUrl |-> Absent, diffWithFirstDate |-> NoDate,
   diffWithPreviousSafeUrl |-> Absent, diffWithPreviousSafeDate |-> NoDate,
   diffWithFirstSafeUrl |-> Absent, diffWithFirstSafeDate |-> NoDate]

\* .reverse()
reverse(seq) == [i \in 1..Len(seq) |-> seq[Len(seq) + 1 - i]]

\* the rolling references of the second .map are places in the reversed
\* array, 0 while undefined; the versionId and date of the version at one
compareToIdAt(versions, place) == IF place = 0 THEN 0 ELSE versions[place].versionId
dateAt(versions, place) == IF place = 0 THEN NoDate ELSE versions[place].date

\* mutant: the first version is linked like the others
hasPreviousAlways(previousVersion) == TRUE

\* if (previousVersion)
hasPrevious(previousVersion) == previousVersion # 0

\* mutant: no safe link is ever set
hasSafeLinksNever(previousSafeVersion, previousVersion) == FALSE

\* mutant: the safe predecessor may be the predecessor itself
hasSafeLinksAnyPrevious(previousSafeVersion, previousVersion) == previousSafeVersion # 0

\* mutant: the test for a safe predecessor dropped
hasSafeLinksWithoutSafe(previousSafeVersion, previousVersion) ==
  previousSafeVersion # previousVersion

\* if (previousSafeVersion && previousSafeVersion !== previousVersion)
hasSafeLinks(previousSafeVersion, previousVersion) ==
  previousSafeVersion # 0 /\ previousSafeVersion # previousVersion

\* mutant: error versions taken for safe ones
isSafeInverted(version) == version.errorCode # Null

\* if (!version.errorCode)
isSafe(version) == version.errorCode = Null

\* mutant: the oldest safe version follows the latest safe version
oldestSafeLatest(oldestSafeVersion, i) == i

\* oldestSafeVersion || version
oldestSafe(oldestSafeVersion, i) == IF oldestSafeVersion # 0 THEN oldestSafeVersion ELSE i

\* the body of the second .map for the version at place i
linked(versions, i, oldestVersion, previousVersion, oldestSafeVersion, previousSafeVersion) ==
  LET version == versions[i]
      plain == [version EXCEPT
                  !.diffWithPreviousUrl =
                     formatComparisonUrl(version, compareToIdAt(versions, previousVersion)),
                  !.diffWithPreviousDate = version.date,
                  !.diffWithFirstUrl =
                     formatComparisonUrl(version, compareToIdAt(versions, oldestVersion)),
                  !.diffWithFirstDate = dateAt(versions, oldestVersion)]
      safe == [plain EXCEPT
                  !.diffWithPreviousSafeUrl =
                     formatComparisonUrl(version,
                                         compareToIdAt(versions, previousSafeVersion)),
                  !.diffWithPreviousSafeDate = version.date,
                  !.diffWithFirstSafeUrl =
                     formatComparisonUrl(version,
                                         compareToIdAt(versions, oldestSafeVersion)),
                  !.diffWithFirstSafeDate = dateAt(versions, oldestSafeVersion)]
  IN IF hasPrevious(previousVersion)
     THEN IF hasSafeLinks(previousSafeVersion, previousVersion) THEN safe ELSE plain
     ELSE version

\* the second .map, from place i on, with the rolling references as the
\* versions before i left them
RECURSIVE linkVersions(_, _, _, _, _, _)
linkVersions(versions, i, oldestVersion, previousVersion, oldestSafeVersion, previousSafeVersion) ==
  IF i > Len(versions) THEN <<>>
  ELSE <<linked(versions, i, oldestVersion, previousVersion, oldestSafeVersion,
                previousSafeVersion)>>
       \o linkVersions(versions, i + 1,
                       IF hasPrevious(previousVersion) THEN oldestVersion ELSE i,
                       i,
                       IF isSafe(versions[i]) THEN oldestSafe(oldestSafeVersion, i)
                       ELSE oldestSafeVersion,
                       IF isSafe(versions[i]) THEN i ELSE previousSafeVersion)

\* the handler of the listing request: a body that is not an array and a
\* status text without a number throw; otherwise filter, map, reverse, map
getVersionsThen(body) ==
  IF ~body.isArray THEN [is |-> "error", versions |-> <<>>]
  ELSE LET kept == notDeleted(body.items)
           mapped == [i \in 1..Len(kept) |-> toVersion(kept[i])]
       IN IF \E i \in 1..Len(kept) : mapped[i].status = NaN
          THEN [is |-> "error", versions |-> <<>>]
          ELSE [is |-> "versions",
                versions |-> linkVersions(reverse(mapped), 1, 0, 0, 0, 0)]

\* one run of the handler, on a body that is not an array or on a listing
\* of up to MaxVersions records in any order of capture time
LineageInit ==
  /\ clientInit
  /\ apiInit
  /\ \/ rawVersions = NoVersions
     \/ \E n \in 0..MaxVersions :
          \E f \in [1..n -> RawFields] : rawVersions = listing(n, f)
  /\ lineage = NotBuilt
  /\ response = <<>>
  /\ result = <<>>

GetVersionsThen ==
  /\ lineage = NotBuilt
  /\ lineage' = getVersionsThen(rawVersions)
  /\ UNCHANGED <<clientVars, apiVars, rawVersions, response, result>>

LineageNext == GetVersionsThen

LineageSpec == LineageInit /\ [][LineageNext]_vars

\* ------------------------------------------------------------------------
\* lib/versionista.js: what getVersionDiff makes of the payload
\* ------------------------------------------------------------------------
\* the parts of a textual payload: some text, a line feed, and the comments
\* that open and close a block of Versionista's additions
BodyParts == {"a", "\n", "<!-- Versionista general -->", "<!-- End Versionista general -->"}

\* the last handler of getVersionDiff on a textual body.  The pattern has no
\* g flag, so replace() removes its first match only: from the first opening
\* comment that a closing comment follows (with the line feed before it, if
\* any) to the first closing comment after it (with the line feed after it,
\* if any).  trim() then drops the line feeds at both ends; the hash of a
\* text is the text tagged, SHA-256 being taken for injective
resolveDiff(body) ==
  LET opens == {i \in 1..Len(body) :
                  /\ body[i] = "<!-- Versionista general -->"
                  /\ \E j \in (i + 1)..Len(body) :
                       body[j] = "<!-- End Versionista general -->"}
      i == CHOOSE x \in opens : \A y \in opens : x <= y
      closes == {j \in (i + 1)..Len(body) : body[j] = "<!-- End Versionista general -->"}
      j == CHOOSE x \in closes : \A y \in closes : x <= y
      from == IF i > 1 /\ body[i - 1] = "\n" THEN i - 1 ELSE i
      to == IF j < Len(body) /\ body[j + 1] = "\n" THEN j + 1 ELSE j
      replaced == IF opens = {} THEN body
                  ELSE SubSeq(body, 1, from - 1) \o SubSeq(body, to + 1, Len(body))
      kept == {k \in 1..Len(replaced) : replaced[k] # "\n"}
      first == CHOOSE x \in kept : \A y \in kept : x <= y
      final == CHOOSE x \in kept : \A y \in kept : x >= y
      hashableBody == IF kept = {} THEN <<>> ELSE SubSeq(replaced, first, final)
  IN IF body = <<>> THEN [is |-> "null", hash |-> <<>>, length |-> 0, content |-> body]
     ELSE [is |-> "diff", hash |-> <<"sha256">> \o hashableBody,
           length |-> Len(hashableBody), content |-> body]

\* two payloads of up to MaxBody parts, each handled on its own
HashInit ==
  /\ clientInit
  /\ apiInit
  /\ rawVersions = NoVersions
  /\ lineage = NotBuilt
  /\ \E n \in 0..MaxBody, m \in 0..MaxBody :
       \E a \in [1..n -> BodyParts], b \in [1..m -> BodyParts] : response = <<a, b>>
  /\ result = <<>>

ResolveDiff ==
  /\ result = <<>>
  /\ result' = <<resolveDiff(response[1]), resolveDiff(response[2])>>
  /\ UNCHANGED <<clientVars, apiVars, rawVersions, lineage, response>>

HashSpec == HashInit /\ [][ResolveDiff]_vars

\* ------------------------------------------------------------------------
\* lib/versionista.js: what getPages makes of the page listing
\* ------------------------------------------------------------------------
\* a JSON value as the handler looks at it: its type ("missing": the object
\* has no such property) and, for a string, its text in parts
Json(type, text) == [type |-> type, text |-> text]

\* the schemas, for the properties that vary in the listings modelled: the
\* types a property may have, and whether it may be missing ('string?')
apiSiteDataSchema == [base |-> [types |-> {"string"}, optional |-> FALSE]]
apiPageSchema ==
  [url |-> [types |-> {"string"}, optional |-> FALSE],
   id |-> [types |-> {"string", "number"}, optional |-> FALSE],
   title |-> [types |-> {"string"}, optional |-> TRUE]]

\* assertSchema(schema, object) does not throw
assertSchema(schema, object) ==
  \A key \in DOMAIN schema :
    IF object[key].type = "missing" THEN schema[key].optional
    ELSE object[key].type \in schema[key].types

\* mutant: no URL is taken for absolute
startsWithSchemeNever(url) == FALSE

\* /^\w+:\/\//.test(remoteUrl)
startsWithScheme(url) == Len(url) >= 2 /\ url[1] = "http" /\ url[2] = "://"

\* the handler of the listing request.  apiData.shape tells what the three
\* tests before the map find: an array, data or pages missing, pages an
\* array, or an object with both.  siteBase + remoteUrl turns a base that
\* is undefined into the text "undefined"
getPagesThen(apiData) ==
  LET siteBase == apiData.data.base
      remoteUrl(apiPage) ==
        IF startsWithScheme(apiPage.url.text) THEN apiPage.url.text
        ELSE (IF siteBase.type = "missing" THEN <<"undefined">> ELSE siteBase.text)
             \o apiPage.url.text
  IN IF apiData.shape # "object"
     THEN [is |-> "error", code |-> apiData.shape, pages |-> <<>>]
     ELSE IF \E i \in 1..Len(apiData.pages) : ~assertSchema(apiPageSchema, apiData.pages[i])
     THEN [is |-> "error", code |-> "schema", pages |-> <<>>]
     ELSE [is |-> "pages", code |-> "null",
           pages |-> [i \in 1..Len(apiData.pages) |->
                        [id |-> apiData.pages[i].id.text,
                         url |-> remoteUrl(apiData.pages[i]),
                         title |-> apiData.pages[i].title]]]

\* one run of the handler, on a body of another shape or on a listing of up
\* to MaxPages page records of a site with or without a base URL.  A page's
\* url has a scheme, is a path, is a host and path without a scheme, or is
\* a text in which no word comes before "://"
PagesInit ==
  /\ clientInit
  /\ apiInit
  /\ rawVersions = NoVersions
  /\ lineage = NotBuilt
  /\ LET urls == {<<"http", "://", "a.gov/p">>, <<"/p">>, <<"a.gov/p">>,
                  <<"://", "a.gov/p">>}
         records == [url : {Json("string", u) : u \in urls}
                            \cup {Json("missing", <<>>), Json("number", <<"7">>)},
                     id : {Json("string", <<"7">>), Json("number", <<"7">>),
                           Json("missing", <<>>)},
                     title : {Json("string", <<"T">>), Json("missing", <<>>)}]
         bases == {Json("string", <<"http", "://", "b.gov">>), Json("missing", <<>>)}
     IN \/ \E shape \in {"array", "incomplete", "pagesArray"} :
             response = [shape |-> shape, data |-> [base |-> Json("missing", <<>>)],
                         pages |-> <<>>]
        \/ \E n \in 0..MaxPages :
             \E f \in [1..n -> records], base \in bases :
               response = [shape |-> "object", data |-> [base |-> base], pages |-> f]
  /\ result = <<>>

GetPagesThen ==
  /\ result = <<>>
  /\ result' = getPagesThen(response)
  /\ UNCHANGED <<clientVars, apiVars, rawVersions, lineage, response>>

PagesSpec == PagesInit /\ [][GetPagesThen]_vars

\* ------------------------------------------------------------------------
\* Vocabulary of the properties
\* ------------------------------------------------------------------------
inFlight == {t \in TaskIds : state[t] = "inflight"}
settled == {t \in TaskIds : state[t] \in {"resolved", "rejected"}}
completed == last.kind = "complete"

\* ------------------------------------------------------------------------
\* C1: the number of requests dispatched and not yet completed never
\* exceeds maxSockets.
\* ------------------------------------------------------------------------
C1_BoundedConcurrency == Cardinality(inFlight) <= MaxSockets

\* every socket is taken, a task is waiting and nothing but the socket
\* guard holds it back
C1_Witness ==
  /\ Cardinality(inFlight) = MaxSockets
  /\ queue # <<>>
  /\ ~sleeping

\* ------------------------------------------------------------------------
\* C2: a task is dispatched at most MAX_RETRIES + 1 times; its retry counter
\* grows by exactly one per retry, never exceeds MAX_RETRIES, and a
\* retryable failure at MAX_RETRIES rejects the task instead of re-queuing it.
\* ------------------------------------------------------------------------
C2_BoundedRetries ==
  /\ \A t \in TaskIds :
       /\ retries[t] <= MAX_RETRIES
       /\ dispatches[t] <= MAX_RETRIES + 1
  /\ completed =>
       /\ last.dispatches <= MAX_RETRIES + 1
       /\ last.did = "retry" =>
            /\ last.retries < MAX_RETRIES
            /\ retries[last.task] = last.retries + 1
       /\ last.did # "retry" /\ state[last.task] = "queued" => FALSE
       /\ (last.retries = MAX_RETRIES
             /\ (last.error = "ECONNRESET" \/ last.statusCode = 503))
            => last.did = "reject" /\ state[last.task] = "rejected"

\* a task with retries enabled is rejected at its fourth dispatch
C2_Witness ==
  /\ completed
  /\ last.opts.retry
  /\ last.dispatches = MAX_RETRIES + 1
  /\ last.retries = MAX_RETRIES
  /\ last.did = "reject"

\* ------------------------------------------------------------------------
\* C3: every submitted task eventually resolves or rejects, provided every
\* dispatched request completes and every timer fires.
\* ------------------------------------------------------------------------
C3_EverySubmittedTaskSettles ==
  \A t \in TaskIds : (state[t] \in {"queued", "inflight"}) ~> (t \in settled)

\* an immediate task, submitted while the scheduler slept and retried to the
\* end, is rejected after the other task was resolved
C3_Witness ==
  /\ completed
  /\ last.did = "reject"
  /\ last.dispatches = MAX_RETRIES + 1
  /\ last.opts.immediate
  /\ \E t \in TaskIds : state[t] = "resolved"

\* ------------------------------------------------------------------------
\* Steps
\* ------------------------------------------------------------------------
\* this step hands a request to request()
dispatching == \E t \in TaskIds : state[t] # "inflight" /\ state'[t] = "inflight"
\* this step dispatches task t for the first time
firstDispatch(t) == dispatches[t] = 0 /\ dispatches'[t] = 1
\* task u is in the queue and has never been dispatched
waitingNew(u) == state[u] = "queued" /\ dispatches[u] = 0
\* this step is a call of the client function
submitting == nextId' = nextId + 1

\* ------------------------------------------------------------------------
\* C4: tasks of equal priority are dispatched in submission order: of two
\* normal tasks, and of two immediate tasks, the one submitted first (the
\* smaller id) is dispatched first.
\* ------------------------------------------------------------------------
C4_FifoWithinPriority ==
  [][\A t, u \in TaskIds :
       ~(/\ firstDispatch(t)
         /\ u < t
         /\ waitingNew(u)
         /\ options[u].immediate = options'[t].immediate)]_vars

\* ------------------------------------------------------------------------
\* C5: an immediate task goes to the front of the queue; while it waits no
\* normal task that was never dispatched is dispatched ahead of it, and its
\* submission leaves the requests in flight in flight.
\* ------------------------------------------------------------------------
C5_ImmediatePreemptsWaitingOnly ==
  [][/\ \A t, i \in TaskIds :
          ~(/\ firstDispatch(t)
            /\ ~options'[t].immediate
            /\ state[i] = "queued"
            /\ options[i].immediate)
     /\ (submitting /\ options'[nextId].immediate) =>
          /\ state'[nextId] = "inflight" \/ Head(queue') = nextId
          /\ inFlight \subseteq inFlight'
          /\ \A t \in TaskIds \ {nextId} : retries'[t] = retries[t]]_vars

\* an immediate task, submitted after a normal task that is still waiting
\* for its first dispatch, is at the head of the queue in front of it
C5_Witness ==
  \E i, n \in TaskIds :
    /\ n < i
    /\ queue # <<>> /\ Head(queue) = i
    /\ \E k \in 2..Len(queue) : queue[k] = n
    /\ options[i].immediate /\ dispatches[i] = 0
    /\ ~options[n].immediate /\ dispatches[n] = 0

\* ------------------------------------------------------------------------
\* C6 as stated: a forced cooldown begins exactly once per sleepEvery
\* completed requests: exactly sleepEvery requests complete between the
\* start of one forced cooldown and the start of the next.
\* ------------------------------------------------------------------------
C6_ExactlyOncePerSleepEvery ==
  (completed /\ last.cooldown /\ last.gap # -1) => last.gap = SleepEvery

\* C6 as amended: a forced cooldown begins at the sleepEvery-th completion
\* counted since the last timer fired, completions during a sleep not being
\* counted; so at least sleepEvery requests complete between two starts.
C6_AtLeastSleepEvery ==
  /\ awake + untilSleep = SleepEvery
  /\ (completed /\ last.cooldown) =>
       /\ last.gap # -1 => last.gap >= SleepEvery
       /\ awake = SleepEvery
       /\ untilSleep = 0 /\ sleeping

\* a forced cooldown begins more than sleepEvery completions after the
\* previous one began
C6_Witness == completed /\ last.cooldown /\ last.gap > SleepEvery

\* ------------------------------------------------------------------------
\* C7: once a forced cooldown has begun, no request is dispatched until that
\* cooldown's own timer fires: no dispatch happens while a cooldown timer
\* with time left is pending.
\* ------------------------------------------------------------------------
C7_CooldownIsAHardPause ==
  [][dispatching =>
       \A tm \in BagToSet(timers') : ~(tm.kind = "cooldown" /\ tm.rem > 0)]_vars

\* ------------------------------------------------------------------------
\* C8: a completed attempt is re-queued iff the task has retries left and
\* the error is ECONNRESET or the response satisfies isRetryable (default:
\* 502, 503, 504); any other error rejects with that error, any other
\* response resolves with that response.
\* ------------------------------------------------------------------------
C8_RetryIffRetryable ==
  completed =>
    LET flagged == /\ last.error = "null"
                   /\ IF last.opts.retryIf = "default"
                      THEN last.statusCode \in {502, 503, 504}
                      ELSE last.statusCode # 200
        reset   == last.error = "ECONNRESET"
    IN /\ (last.did = "retry") <=> (last.retries < MAX_RETRIES /\ (reset \/ flagged))
       /\ last.did = "retry" => state[last.task] = "queued" /\ Head(queue) = last.task
       /\ (last.error # "null" /\ ~reset) =>
            /\ last.did = "reject"
            /\ last.value = [is |-> "error", code |-> last.error, statusCode |-> 0]
            /\ state[last.task] = "rejected"
       /\ (last.error = "null" /\ ~flagged) =>
            /\ last.did = "resolve"
            /\ last.value = [is |-> "response", code |-> "null",
                             statusCode |-> last.statusCode]
            /\ state[last.task] = "resolved"

\* a 504 under the default predicate is re-queued
C8_Witness ==
  /\ completed
  /\ last.did = "retry"
  /\ last.statusCode = 504
  /\ last.opts.retryIf = "default"

\* ------------------------------------------------------------------------
\* C9: a task that exhausts its retries is rejected with the outcome of its
\* final attempt: the transport error, or the last response when the
\* failure was a flagged response; never with an empty value.
\* ------------------------------------------------------------------------
C9_RejectionCarriesOutcome ==
  (completed /\ last.did = "reject") =>
    IF last.error # "null"
    THEN last.value = [is |-> "error", code |-> last.error, statusCode |-> 0]
    ELSE last.value = [is |-> "response", code |-> "null", statusCode |-> last.statusCode]

\* ------------------------------------------------------------------------
\* C10: a task submitted with options.retry === false is dispatched once and
\* never re-queued, whatever its request calls back with.
\* ------------------------------------------------------------------------
C10_NoRetryDispatchedOnce ==
  /\ \A t \in TaskIds : ~options[t].retry => dispatches[t] <= 1
  /\ (completed /\ ~last.opts.retry) =>
       /\ last.did # "retry"
       /\ last.dispatches = 1
       /\ last.task \in settled
       /\ \A i \in 1..Len(queue) : queue[i] # last.task

\* a task with retries off fails with a connection reset or a 503 and is
\* rejected at its first dispatch
C10_Witness ==
  /\ completed
  /\ ~last.opts.retry
  /\ (last.error = "ECONNRESET" \/ last.statusCode = 503)
  /\ last.did = "reject"

\* ------------------------------------------------------------------------
\* Vocabulary of the API layer
\* ------------------------------------------------------------------------
\* the login requests submitted, the requests a call submitted, the calls made
loginTasks == {t \in TaskIds : purpose[t].what = "login"}
tasksOf(c) == {t \in TaskIds : purpose[t].call = c}
started == {c \in CallIds : calls[c].stage # "idle"}

\* ------------------------------------------------------------------------
\* C11: however many API calls are made on an instance, at the same time or
\* one after the other, at most one login request is submitted to the
\* scheduler, and every caller awaits that one login attempt.
\* ------------------------------------------------------------------------
C11_OneLoginRequest ==
  /\ Cardinality(loginTasks) <= 1
  /\ \A c \in started :
       /\ calls[c].login = loggedIn.task
       /\ loginTasks = {calls[c].login}

\* two calls wait for the same pending login, and the login request is the
\* only request submitted
C11_Witness ==
  /\ \A c \in CallIds : calls[c].stage = "login" /\ calls[c].login = 1
  /\ loggedIn.state = "pending"
  /\ nextId = 2

\* ------------------------------------------------------------------------
\* C12: the login request is the first request submitted to the scheduler,
\* and no request of an API method is submitted until the login attempt has
\* completed successfully.
\* ------------------------------------------------------------------------
C12_LoginBeforeAnyRequest ==
  /\ nextId > 1 => purpose[1].call = 0 /\ purpose[1].what = "login"
  /\ \A t \in TaskIds : purpose[t].call \in CallIds => loggedIn.state = "resolved"
  /\ \A c \in CallIds : calls[c].stage \notin {"idle", "login", "failed"} =>
       loggedIn.state = "resolved"

\* the login has succeeded and both calls have submitted their first request
C12_Witness ==
  /\ loggedIn.state = "resolved"
  /\ \A c \in CallIds : tasksOf(c) # {}
  /\ nextId = 4

\* ------------------------------------------------------------------------
\* C13: if the login response contains the "log in" marker, the login
\* attempt fails with an authentication error; the failure is terminal: no
\* second login request is submitted, and every API call on the instance,
\* pending or made later, fails with that same error without submitting a
\* request of its own.
\* ------------------------------------------------------------------------
C13_MarkerFailsWithAuthenticationError ==
  loggedIn.body.marker =>
    /\ loggedIn.state = "rejected"
    /\ loggedIn.value = AuthenticationError
    /\ Cardinality(loginTasks) = 1
    /\ \A c \in CallIds :
         /\ tasksOf(c) = {}
         /\ calls[c].stage \in {"idle", "login", "failed"}
         /\ calls[c].stage = "failed" => calls[c].result = AuthenticationError

\* ------------------------------------------------------------------------
\* C20 as stated: getVersionDiff on a comparison URL whose final status is
\* an error (>= 400) or whose final host is still the origin host fails with
\* InvalidComparisonError (VERSIONISTA:INVALID_URL); the comparison request
\* is not retried, and neither the diff-host API request nor the payload
\* request is submitted.
\* ------------------------------------------------------------------------
C20_InvalidComparisonNotRetried ==
  /\ (completed /\ purpose[last.task].what = "comparison"
        /\ last.error = "null" /\ last.statusCode >= 400) =>
       last.did = "resolve"
  /\ \A c \in CallIds :
       (/\ calls[c].host # NoHost
        /\ \/ calls[c].statusCode >= 400
           \/ calls[c].host \in {"versionista.com", "app.versionista.com"}) =>
         /\ calls[c].stage = "failed"
         /\ calls[c].result = InvalidUrlError
         /\ \A t \in tasksOf(c) : purpose[t].what = "comparison"

\* C20 as amended: the comparison request goes through the scheduler with
\* the default retry predicate, so a 502, 503 or 504 is retried while the
\* task has retries left and then rejected with the scheduler's value (null),
\* not with InvalidComparisonError.  Any other response whose status is
\* >= 400 or whose final host is still the origin host is handed to the
\* handler without a retry, the call fails with InvalidComparisonError, and
\* neither the diff-host API request nor the payload request is submitted.
C20_InvalidComparisonUnlessGatewayError ==
  /\ (completed /\ purpose[last.task].what = "comparison" /\ last.error = "null") =>
       IF last.statusCode \in {502, 503, 504}
       THEN /\ last.did = (IF last.retries < MAX_RETRIES THEN "retry" ELSE "reject")
            /\ last.did = "reject" => last.value = NullValue
       ELSE last.did = "resolve"
  /\ \A c \in CallIds :
       /\ (/\ calls[c].host # NoHost
           /\ \/ calls[c].statusCode >= 400
              \/ calls[c].host \in {"versionista.com", "app.versionista.com"}) =>
            /\ calls[c].stage = "failed"
            /\ calls[c].result = InvalidUrlError
            /\ calls[c].statusCode \notin {502, 503, 504}
            /\ \A t \in tasksOf(c) : purpose[t].what = "comparison"
       /\ (/\ calls[c].method = "getVersionDiff"
           /\ calls[c].stage = "failed"
           /\ calls[c].host = NoHost
           /\ tasksOf(c) # {}) =>
            /\ calls[c].result # InvalidUrlError
            /\ \A t \in tasksOf(c) : purpose[t].what = "comparison"

\* a comparison that was redirected back to the origin host with a 200 has
\* failed with InvalidComparisonError after the request had been retried
C20_Witness ==
  \E c \in CallIds :
    /\ calls[c].stage = "failed"
    /\ calls[c].result = InvalidUrlError
    /\ calls[c].statusCode = 200
    /\ calls[c].host = "app.versionista.com"
    /\ tasksOf(c) # {}

\* ------------------------------------------------------------------------
\* Vocabulary of the lineage
\* ------------------------------------------------------------------------
\* getVersions has returned a lineage; its versions, in order
built == lineage.is = "versions"
returned == lineage.versions

\* the place in the returned sequence of the version a link compares with:
\* the id after the colon of the link (0 if no returned version has it)
placeOf(url) ==
  IF \E j \in 1..Len(returned) : returned[j].versionId = url[8]
  THEN CHOOSE j \in 1..Len(returned) : returned[j].versionId = url[8]
  ELSE 0

isError(version) == version.errorCode # Null
hasSafe(version) ==
  version.diffWithPreviousSafeUrl # Absent \/ version.diffWithFirstSafeUrl # Absent

\* the comparison link https://versionista.com/{siteId}/{pageId}/{id}:{target}/
comparisonLink(id, target) ==
  <<"https://versionista.com/", page.siteId, "/", page.pageId, "/", id, ":", target, "/">>

\* ------------------------------------------------------------------------
\* C14: for any list of N >= 1 non-deleted version records, in any input
\* order, the lineage getVersions returns is sorted ascending by capture
\* time.
\* ------------------------------------------------------------------------
C14_SortedByCaptureTime ==
  built =>
    \A i, j \in 1..Len(returned) : i < j => returned[i].date <= returned[j].date

\* ------------------------------------------------------------------------
\* C15: diffWithPrevious and diffWithFirst are present on a version iff it
\* is not the first of the returned sequence; so of N returned versions
\* exactly N - 1 carry diffWithPrevious, and a page with exactly one version
\* carries no comparison link of any kind.
\* ------------------------------------------------------------------------
C15_LinksIffNotFirst ==
  built =>
    /\ \A i \in 1..Len(returned) :
         /\ (returned[i].diffWithPreviousUrl # Absent) <=> (i > 1)
         /\ (returned[i].diffWithFirstUrl # Absent) <=> (i > 1)
         /\ (returned[i].diffWithPreviousDate # NoDate) <=> (i > 1)
         /\ (returned[i].diffWithFirstDate # NoDate) <=> (i > 1)
    /\ Len(returned) >= 1 =>
         Cardinality({i \in 1..Len(returned) : returned[i].diffWithPreviousUrl # Absent})
           = Len(returned) - 1
    /\ Len(returned) = 1 =>
         /\ ~hasSafe(returned[1])
         /\ returned[1].diffWithPreviousSafeDate = NoDate
         /\ returned[1].diffWithFirstSafeDate = NoDate

\* a lineage of MaxVersions versions, from a listing without deleted records
C15_Witness ==
  /\ built
  /\ Len(returned) = MaxVersions
  /\ returned[1].diffWithPreviousUrl = Absent
  /\ \A i \in 2..MaxVersions : returned[i].diffWithPreviousUrl # Absent

\* ------------------------------------------------------------------------
\* C16: for every version v other than the first, diffWithPrevious is the
\* comparison link from v to the version immediately before v in the
\* returned sequence, whatever that version's error status, and
\* diffWithFirst is the comparison link from v to the first version; a link
\* has the form https://versionista.com/{siteId}/{pageId}/{v.id}:{target.id}/.
\* ------------------------------------------------------------------------
C16_PlainLinksTargets ==
  built =>
    \A i \in 2..Len(returned) :
      /\ returned[i].diffWithPreviousUrl
           = comparisonLink(returned[i].versionId, returned[i - 1].versionId)
      /\ returned[i].diffWithFirstUrl
           = comparisonLink(returned[i].versionId, returned[1].versionId)

\* a version whose predecessor is an error version and is not the first
C16_Witness ==
  /\ built
  /\ \E i \in 3..Len(returned) :
       /\ isError(returned[i - 1])
       /\ placeOf(returned[i].diffWithPreviousUrl) = i - 1
       /\ placeOf(returned[i].diffWithFirstUrl) = 1

\* ------------------------------------------------------------------------
\* C17: for every version v whose immediate predecessor is an error version
\* and that has an earlier non-error version, diffWithPreviousSafe
\* references the latest non-error version before v, while diffWithPrevious
\* still references the immediate predecessor.
\* ------------------------------------------------------------------------
C17_SafeLinkSkipsErrors ==
  built =>
    \A i \in 2..Len(returned) :
      LET before == {j \in 1..(i - 1) : ~isError(returned[j])}
      IN (isError(returned[i - 1]) /\ before # {}) =>
           /\ returned[i].diffWithPreviousSafeUrl # Absent
           /\ \A j \in before : j <= placeOf(returned[i].diffWithPreviousSafeUrl)
           /\ placeOf(returned[i].diffWithPreviousSafeUrl) \in before
           /\ placeOf(returned[i].diffWithPreviousUrl) = i - 1

\* three versions of which only the second is an error: the safe link of
\* the third references the first, its plain link the second
C17_Witness ==
  /\ built
  /\ Len(returned) = 3
  /\ ~isError(returned[1]) /\ isError(returned[2]) /\ ~isError(returned[3])
  /\ placeOf(returned[3].diffWithPreviousSafeUrl) = 1
  /\ placeOf(returned[3].diffWithPreviousUrl) = 2

\* ------------------------------------------------------------------------
\* C18: the targets of diffWithPreviousSafe and diffWithFirstSafe, when
\* present, are versions whose errorCode is unset.
\* ------------------------------------------------------------------------
C18_SafeTargetsAreNotErrors ==
  built =>
    \A i \in 1..Len(returned) :
      /\ returned[i].diffWithPreviousSafeUrl # Absent =>
           /\ placeOf(returned[i].diffWithPreviousSafeUrl) # 0
           /\ ~isError(returned[placeOf(returned[i].diffWithPreviousSafeUrl)])
      /\ returned[i].diffWithFirstSafeUrl # Absent =>
           /\ placeOf(returned[i].diffWithFirstSafeUrl) # 0
           /\ ~isError(returned[placeOf(returned[i].diffWithFirstSafeUrl)])

\* an error version carries safe links, across another error version
C18_Witness ==
  /\ built
  /\ \E i \in 3..Len(returned) :
       /\ isError(returned[i]) /\ isError(returned[i - 1])
       /\ placeOf(returned[i].diffWithPreviousSafeUrl) = i - 2
       /\ returned[i].diffWithFirstSafeUrl # Absent

\* ------------------------------------------------------------------------
\* C19 as stated: for every version that carries safe links, the target of
\* each safe link is no later in the sequence than the target of the
\* corresponding plain link: diffWithPreviousSafe's is not later than
\* diffWithPrevious's, diffWithFirstSafe's not later than diffWithFirst's.
\* ------------------------------------------------------------------------
C19_SafeTargetsNoLater ==
  built =>
    \A i \in 1..Len(returned) :
      hasSafe(returned[i]) =>
        /\ placeOf(returned[i].diffWithPreviousSafeUrl)
             <= placeOf(returned[i].diffWithPreviousUrl)
        /\ placeOf(returned[i].diffWithFirstSafeUrl)
             <= placeOf(returned[i].diffWithFirstUrl)

\* C19 as amended: the target of diffWithPreviousSafe is earlier than the
\* target of diffWithPrevious; the target of diffWithFirstSafe is the first
\* non-error version, which is not earlier than the target of diffWithFirst
\* (the first version) and not later than the target of diffWithPreviousSafe.
C19_SafeTargetsBetweenFirstAndPrevious ==
  built =>
    \A i \in 1..Len(returned) :
      hasSafe(returned[i]) =>
        /\ placeOf(returned[i].diffWithPreviousSafeUrl)
             < placeOf(returned[i].diffWithPreviousUrl)
        /\ placeOf(returned[i].diffWithFirstUrl) = 1
        /\ placeOf(returned[i].diffWithFirstUrl)
             <= placeOf(returned[i].diffWithFirstSafeUrl)
        /\ placeOf(returned[i].diffWithFirstSafeUrl)
             <= placeOf(returned[i].diffWithPreviousSafeUrl)
        /\ \A j \in 1..(placeOf(returned[i].diffWithFirstSafeUrl) - 1) :
             isError(returned[j])

\* the first version is an error: the safe first link of a later version
\* references a later version than its plain first link does
C19_Witness ==
  /\ built
  /\ \E i \in 1..Len(returned) :
       /\ hasSafe(returned[i])
       /\ isError(returned[1])
       /\ placeOf(returned[i].diffWithFirstSafeUrl) = 2
       /\ placeOf(returned[i].diffWithPreviousSafeUrl) = 2

\* ------------------------------------------------------------------------
\* Vocabulary of the retry properties
\* ------------------------------------------------------------------------
\* the callback of task t re-queues it; task t is taken from the queue again
retrying(t) == state[t] = "inflight" /\ state'[t] = "queued"
redispatching(t) == state[t] = "queued" /\ state'[t] = "inflight" /\ dispatches[t] > 0

\* ------------------------------------------------------------------------
\* C26: when a task is retried, its slot is released and it is inserted at
\* the head of the queue, ahead of every task queued at that moment; the
\* slots taken are exactly those of the requests in flight, so a task that
\* waits for its retry occupies none.
\* ------------------------------------------------------------------------
C26_RetryReleasesSlotAndRequeuesAtHead ==
  [][/\ \A t \in TaskIds : retrying(t) =>
          /\ queue' = <<t>> \o queue
          /\ availableSockets' = availableSockets + 1
     /\ availableSockets' =
          MaxSockets - Cardinality({u \in TaskIds : state'[u] = "inflight"})]_vars

\* a task has just been re-queued ahead of a task that was already waiting,
\* and a slot is free
C26_Witness ==
  /\ completed /\ last.did = "retry"
  /\ Len(queue) >= 2 /\ Head(queue) = last.task
  /\ availableSockets > 0

\* ------------------------------------------------------------------------
\* C27: the backoff scheduled for the k-th retry of a task is
\* sleepFor * k * 2, and the retried task is not dispatched again before
\* that backoff's own timer has fired, that is while the backoff has time
\* left.
\* ------------------------------------------------------------------------
C27_NotRedispatchedBeforeOwnBackoff ==
  [][\A t \in TaskIds :
       /\ retrying(t) =>
            /\ backoffLeft'[t] = SLEEP_FOR * retries'[t] * 2
            /\ BagIn([kind |-> "backoff", rem |-> SLEEP_FOR * retries'[t] * 2], timers')
       /\ redispatching(t) => backoffLeft[t] = 0]_vars

\* ------------------------------------------------------------------------
\* C28: a version carries diffWithPreviousSafe and diffWithFirstSafe if and
\* only if it is not the first version, some earlier version has no
\* errorCode and the version just before it is an error version; the two
\* safe links are set together or not at all.
\* ------------------------------------------------------------------------
C28_SafeLinksIffErrorSkipped ==
  built =>
    \A i \in 1..Len(returned) :
      /\ returned[i].diffWithPreviousSafeUrl # Absent <=>
           /\ i > 1
           /\ \E j \in 1..(i - 1) : ~isError(returned[j])
           /\ isError(returned[i - 1])
      /\ returned[i].diffWithPreviousSafeUrl # Absent <=>
           returned[i].diffWithFirstSafeUrl # Absent

\* of four versions the second follows a non-error version and has no safe
\* link, and the last follows an error version and has both safe links
C28_Witness ==
  /\ built
  /\ Len(returned) = 4
  /\ ~isError(returned[1]) /\ ~hasSafe(returned[2])
  /\ isError(returned[3])
  /\ returned[4].diffWithPreviousSafeUrl # Absent
  /\ returned[4].diffWithFirstSafeUrl # Absent

\* ------------------------------------------------------------------------
\* C29: in a lineage whose first versions are all errors, no version up to
\* and including the first non-error version s carries a safe link, and
\* every diffWithFirstSafe link of a later version references s.
\* ------------------------------------------------------------------------
C29_OldestSafePinnedToFirstSuccess ==
  (built /\ Len(returned) >= 1 /\ isError(returned[1])) =>
    LET safePlaces == {j \in 1..Len(returned) : ~isError(returned[j])}
        s == IF safePlaces = {} THEN Len(returned)
             ELSE CHOOSE j \in safePlaces : \A k \in safePlaces : j <= k
    IN /\ \A i \in 1..s : ~hasSafe(returned[i])
       /\ \A i \in (s + 1)..Len(returned) :
            returned[i].diffWithFirstSafeUrl # Absent =>
              /\ placeOf(returned[i].diffWithFirstSafeUrl) = s
              /\ returned[i].diffWithFirstSafeUrl
                   = comparisonLink(returned[i].versionId, returned[s].versionId)

\* an error, the first success, a second success, an error, and a version
\* whose diffWithFirstSafe references the first success, not the second
C29_Witness ==
  /\ built
  /\ Len(returned) = 5
  /\ isError(returned[1]) /\ ~isError(returned[2]) /\ ~isError(returned[3])
  /\ isError(returned[4])
  /\ ~hasSafe(returned[2]) /\ ~hasSafe(returned[3])
  /\ placeOf(returned[5].diffWithFirstSafeUrl) = 2
  /\ placeOf(returned[5].diffWithPreviousSafeUrl) = 3

\* ------------------------------------------------------------------------
\* Vocabulary of the API methods
\* ------------------------------------------------------------------------
\* the calls of a method; the requests of call c that are its request what
callsOf(method) == {c \in CallIds : calls[c].method = method}
requestsFor(c, what) == {t \in tasksOf(c) : purpose[t].what = what}

C23_PlaceholderRetriedAtMostRetriesTimes ==
  \A c \in callsOf("getVersionRawContent") :
    LET apis == requestsFor(c, "contentApi")
        contents == requestsFor(c, "content")
        exhausted == /\ calls[c].attempts = calls[c].args.retries + 1
                     /\ Cardinality({t \in contents : state[t] = "resolved"})
                          = calls[c].attempts
                     /\ cacheExpired(calls[c].body)
    IN /\ calls[c].attempts <= calls[c].args.retries + 1
       /\ calls[c].retries >= 0
       /\ calls[c].attempts >= 1 =>
            calls[c].retries = calls[c].args.retries - calls[c].attempts
                               + (IF calls[c].stage = "login" THEN 0 ELSE 1)
       /\ Cardinality(apis) = calls[c].attempts
       /\ Cardinality(contents) <= Cardinality(apis)
       /\ Cardinality(apis) <= Cardinality(contents) + 1
       /\ calls[c].stage = "login" /\ calls[c].attempts >= 1 =>
            cacheExpired(calls[c].body) /\ Cardinality(contents) = calls[c].attempts
       /\ calls[c].stage = "done" =>
            ~cacheExpired(calls[c].body) /\ calls[c].result = ContentValue
       /\ calls[c].result = NoContentError <=>
            (calls[c].stage = "failed" /\ exhausted)

\* called with retries = 2, the method has made three attempts, six
\* requests, and failed on the third placeholder
C23_Witness ==
  /\ calls[1].method = "getVersionRawContent"
  /\ calls[1].args.retries = DEFAULT_RETRIES
  /\ calls[1].attempts = DEFAULT_RETRIES + 1
  /\ Cardinality(tasksOf(1)) = 2 * (DEFAULT_RETRIES + 1)
  /\ calls[1].stage = "failed"
  /\ calls[1].result = NoContentError

\* ------------------------------------------------------------------------
\* C30: a successful getVersionDiff submits exactly three requests in this
\* order: the comparison URL, then the diff host's API request built from
\* the first response's final host and path and the diff type (default
\* 'only'), then the payload URL returned by that API; each is submitted
\* only after the previous response has arrived, and the second and third
\* are submitted with immediate priority.
\* ------------------------------------------------------------------------
C30_ThreeRequestsInOrder ==
  \A c \in callsOf("getVersionDiff") :
    /\ \A t \in tasksOf(c) : purpose[t].what \in {"comparison", "api", "payload"}
    /\ \A what \in {"comparison", "api", "payload"} :
         Cardinality(requestsFor(c, what)) <= 1
    /\ calls[c].stage = "done" => Cardinality(tasksOf(c)) = 3
    /\ \A q \in requestsFor(c, "comparison") :
         ~purpose[q].immediate /\ purpose[q].url = <<"url">>
    /\ \A a \in requestsFor(c, "api") :
         /\ \E q \in requestsFor(c, "comparison") : q < a /\ state[q] = "resolved"
         /\ purpose[a].immediate
         /\ \E uri \in Uris :
              purpose[a].url =
                <<"http://", calls[c].host, "/api/ip_url", uri.pathname,
                  IF calls[c].args.diffType = "undefined" THEN "only"
                  ELSE calls[c].args.diffType,
                  IF uri.search = "null" THEN "" ELSE uri.search>>
    /\ \A p \in requestsFor(c, "payload") :
         /\ \E a \in requestsFor(c, "api") : a < p /\ state[a] = "resolved"
         /\ purpose[p].immediate
         /\ purpose[p].url \in {<<"http://", calls[c].host, "/content">>,
                                <<"http://files.example", "/content">>}

\* a call without a diff type has succeeded with three requests, the
\* second for the diff type 'only'
C30_Witness ==
  \E c \in CallIds :
    /\ calls[c].method = "getVersionDiff"
    /\ calls[c].args.diffType = "undefined"
    /\ calls[c].stage = "done"
    /\ Cardinality(tasksOf(c)) = 3
    /\ \E a \in requestsFor(c, "api") : purpose[a].url[5] = "only"

\* ------------------------------------------------------------------------
\* Vocabulary of the payload properties
\* ------------------------------------------------------------------------
\* a body without its blocks of additions: every opening comment that a
\* closing comment follows is removed with all that lies up to that comment
RECURSIVE withoutBlocks(_)
withoutBlocks(body) ==
  IF body = <<>> THEN <<>>
  ELSE IF /\ Head(body) = "<!-- Versionista general -->"
          /\ \E j \in 2..Len(body) : body[j] = "<!-- End Versionista general -->"
  THEN LET closes == {j \in 2..Len(body) : body[j] = "<!-- End Versionista general -->"}
           j == CHOOSE x \in closes : \A y \in closes : x <= y
       IN withoutBlocks(SubSeq(body, j + 1, Len(body)))
  ELSE <<Head(body)>> \o withoutBlocks(Tail(body))

\* ------------------------------------------------------------------------
\* C22: for any two non-empty textual diff bodies that differ only in
\* vendor-injected marker blocks (their presence, their number or what
\* lies between the markers), getVersionDiff returns the same hash.
\* ------------------------------------------------------------------------
C22_SameHashUpToMarkerBlocks ==
  (/\ result # <<>>
   /\ response[1] # <<>> /\ response[2] # <<>>
   /\ withoutBlocks(response[1]) = withoutBlocks(response[2]))
    => result[1].hash = result[2].hash

\* ------------------------------------------------------------------------
\* C24: for every page record returned by getPages, the remote URL equals
\* the record's url when that url starts with a scheme, and otherwise
\* equals the site's base URL concatenated with the record's url.
\* ------------------------------------------------------------------------
C24_RemoteUrlAbsoluteOrBased ==
  (result # <<>> /\ result.is = "pages") =>
    /\ Len(result.pages) = Len(response.pages)
    /\ \A i \in 1..Len(result.pages) :
         LET url == response.pages[i].url.text
             base == response.data.base
             absolute == Len(url) >= 2 /\ url[1] = "http" /\ url[2] = "://"
         IN /\ absolute => result.pages[i].url = url
            /\ (~absolute /\ base.type = "string") =>
                 result.pages[i].url = base.text \o url

\* a listing of a page with an absolute URL and a page with a path, of a
\* site with a base URL
C24_Witness ==
  /\ result # <<>> /\ result.is = "pages"
  /\ Len(result.pages) = 2
  /\ response.data.base.type = "string"
  /\ result.pages[1].url = <<"http", "://", "a.gov/p">>
  /\ result.pages[2].url = <<"http", "://", "b.gov", "/p">>

\* ------------------------------------------------------------------------
\* C25: getPages validates every JSON payload it uses (the site data
\* object including its base URL, each page record) against the expected
\* schema before any of its fields is used; a mismatch fails the request
\* with a schema error.
\* ------------------------------------------------------------------------
C25_PayloadsValidatedBeforeUse ==
  (result # <<>> /\ response.shape = "object") =>
    LET valid == /\ assertSchema(apiSiteDataSchema, response.data)
                 /\ \A i \in 1..Len(response.pages) :
                      assertSchema(apiPageSchema, response.pages[i])
    IN /\ result.is = "pages" <=> valid
       /\ result.is = "error" => result.code = "schema"

\* ------------------------------------------------------------------------
\* Vocabulary of the scheduler's bookkeeping
\* ------------------------------------------------------------------------
\* how many times task t occurs in the queue
timesQueued(t) == Cardinality({i \in 1..Len(queue) : queue[i] = t})

\* ------------------------------------------------------------------------
\* C33: the rejection of one task leaves every other task untouched: no
\* other queued task is removed, rejected or reordered, no retry counter of
\* another task changes, and the scheduler goes on to look at the queue.
\* ------------------------------------------------------------------------
C33_RejectionLeavesOthersUntouched ==
  [][\A t \in TaskIds :
       (state[t] # "rejected" /\ state'[t] = "rejected") =>
         /\ queue' = queue
         /\ \A u \in TaskIds \ {t} :
              /\ state'[u] = state[u]
              /\ retries'[u] = retries[u]
              /\ options'[u] = options[u]
              /\ dispatches'[u] = dispatches[u]
         /\ tickPending']_vars

\* a task has just been rejected while two others wait, one of them for a
\* retry
C33_Witness ==
  /\ completed /\ last.did = "reject"
  /\ Len(queue) = 2
  /\ \E u \in TaskIds : state[u] = "queued" /\ retries[u] > 0 /\ dispatches[u] > 0

\* ------------------------------------------------------------------------
\* C38: in every reachable state availableSockets equals maxSockets minus
\* the number of requests in flight, so 0 <= availableSockets <= maxSockets;
\* a slot is taken once per dispatch and released once per completion,
\* completions that lead to a retry or a rejection included.
\* ------------------------------------------------------------------------
C38_SocketsAccountForRequestsInFlight ==
  /\ availableSockets = MaxSockets - Cardinality(inFlight)
  /\ availableSockets \in 0..MaxSockets
  /\ completed => state[last.task] # "inflight"

\* a request has completed into a retry, another into a rejection, while
\* the other slot stays taken
C38_Witness ==
  /\ completed /\ last.did = "reject"
  /\ availableSockets = MaxSockets - 1
  /\ \E u \in inFlight : retries[u] > 0 /\ options[u].retry

\* ------------------------------------------------------------------------
\* C39: each submitted task is, at any moment, in exactly one of these
\* states: waiting in the queue (exactly once), in flight, or settled; a
\* settled task stays settled as it was, and is never re-queued or
\* dispatched again.
\* ------------------------------------------------------------------------
C39_OneStatePerTask ==
  [][/\ \A t \in TaskIds :
          /\ t < nextId' <=> state'[t] \in {"queued", "inflight", "resolved", "rejected"}
          /\ timesQueued(t)' = (IF state'[t] = "queued" THEN 1 ELSE 0)
          /\ state[t] \in {"resolved", "rejected"} => state'[t] = state[t]
     /\ \A i \in 1..Len(queue') : queue'[i] < nextId']_vars

\* one task waits for its retry, one is in flight and one is settled
C39_Witness ==
  /\ nextId = 4
  /\ \E t, u, v \in 1..(nextId - 1) :
       /\ state[t] = "queued" /\ retries[t] > 0
       /\ state[u] = "inflight"
       /\ state[v] = "rejected"

\* ------------------------------------------------------------------------
\* C40: with sleepEvery > 0, in every reachable state
\* 0 <= untilSleep <= sleepEvery, and untilSleep = 0 only while the
\* scheduler is sleeping; completions that arrive while the scheduler is
\* sleeping leave untilSleep unchanged.
\* ------------------------------------------------------------------------
C40_UntilSleepInRange ==
  [][/\ untilSleep' \in 0..SleepEvery
     /\ untilSleep' = 0 => sleeping'
     /\ (last'.kind = "complete" /\ sleeping) => untilSleep' = untilSleep]_vars

\* a request has completed during a sleep that began with a forced
\* cooldown, and the counter is still 0
C40_Witness ==
  /\ completed /\ ~last.cooldown
  /\ sleeping /\ untilSleep = 0

\* ------------------------------------------------------------------------
\* C37: the scheduler is work-conserving: it never rests in a state where
\* it is not sleeping, the queue is non-empty, a concurrency slot is free
\* and no dispatch call is pending (neither a scheduled doNextRequest nor a
\* timer whose callback makes one); after a cooldown or backoff ends, queued
\* tasks are dispatched until the queue is empty or all slots are in use.
\* ------------------------------------------------------------------------
C37_WorkConserving ==
  ~(/\ ~sleeping
    /\ queue # <<>>
    /\ availableSockets > 0
    /\ ~tickPending
    /\ timers = EmptyBag)

\* the records of the listing getVersions reads
records == {rawVersions.items[k] : k \in 1..Len(rawVersions.items)}

\* ------------------------------------------------------------------------
\* C34: for every version getVersions returns, errorCode is set if and only
\* if its parsed HTTP status is >= 400, and is then the status in decimal;
\* a record (among those not dropped as deleted) whose status text does not
\* start with a number makes the whole call fail: no partial lineage is
\* returned.
\* ------------------------------------------------------------------------
C34_ErrorCodeIffStatusAtLeast400 ==
  /\ built =>
       \A i \in 1..Len(returned) :
         LET version == returned[i]
             record == CHOOSE r \in records : r.id = version.versionId
         IN /\ version.status \in {200, 404}
            /\ (record.rc = "200 OK") = (version.status = 200)
            /\ (record.rc = "404 Not Found") = (version.status = 404)
            /\ version.errorCode # Null <=> version.status >= 400
            /\ version.status = 404 => version.errorCode = "404"
  /\ (/\ lineage # NotBuilt
      /\ \E r \in records : ~r.deleted /\ r.rc = "OK")
       => lineage = [is |-> "error", versions |-> <<>>]

\* a lineage with an error version between two successful ones, built from
\* a listing whose only record without a status number is a deleted one
C34_Witness ==
  /\ built
  /\ Len(returned) = 3
  /\ returned[1].errorCode = Null /\ returned[2].errorCode = "404"
  /\ returned[3].errorCode = Null
  /\ \E r \in records : r.deleted /\ r.rc = "OK"

\* ------------------------------------------------------------------------
\* C35: records flagged as deleted are removed before the lineage is
\* built: no deleted record appears in the result, no comparison link
\* references a deleted record, and the first, previous and safe references
\* are computed over the non-deleted records only.
\* ------------------------------------------------------------------------
C35_DeletedRecordsDropped ==
  built =>
    LET kept == SelectSeq(rawVersions.items, LAMBDA r : ~r.deleted)
        keptIds == {kept[k].id : k \in 1..Len(kept)}
        links(version) == {version.diffWithPreviousUrl, version.diffWithFirstUrl,
                           version.diffWithPreviousSafeUrl, version.diffWithFirstSafeUrl}
                          \ {Absent}
    IN /\ Len(returned) = Len(kept)
       /\ \A i \in 1..Len(returned) :
            /\ returned[i].versionId = kept[Len(kept) + 1 - i].id
            /\ \A url \in links(returned[i]) : url[8] \in keptIds /\ placeOf(url) < i
            /\ i > 1 =>
                 /\ returned[i].diffWithPreviousUrl
                      = comparisonLink(returned[i].versionId, kept[Len(kept) + 2 - i].id)
                 /\ returned[i].diffWithFirstUrl
                      = comparisonLink(returned[i].versionId, kept[Len(kept)].id)

\* the listing holds deleted records before and between the ones returned,
\* and the last version returned has safe links
C35_Witness ==
  /\ built
  /\ Len(rawVersions.items) = 5 /\ Len(returned) = 3
  /\ rawVersions.items[1].deleted /\ rawVersions.items[3].deleted
  /\ ~rawVersions.items[2].deleted
  /\ returned[3].diffWithPreviousSafeUrl # Absent

\* ------------------------------------------------------------------------
\* C31 as stated: if the diff host's API request of getVersionDiff returns
\* any error response (status >= 400), getVersionDiff fails with
\* DiffApiError (VERSIONISTA:API_ERROR) and the payload request is never
\* submitted.
\* ------------------------------------------------------------------------
C31_ApiErrorIsDiffApiError ==
  /\ (completed /\ purpose[last.task].what = "api"
        /\ last.error = "null" /\ last.statusCode >= 400) =>
       last.did = "resolve"
  /\ \A c \in callsOf("getVersionDiff") :
       calls[c].apiStatus >= 400 =>
         /\ calls[c].stage = "failed"
         /\ calls[c].result = DiffApiError
         /\ requestsFor(c, "payload") = {}

\* C31 as amended: the API request goes through the scheduler with the
\* default retry predicate, so a 502, 503 or 504 is retried while the task
\* has retries left and then rejected with the scheduler's value (null):
\* getVersionDiff then fails with that value, not with DiffApiError.  Any
\* other response with a status >= 400 reaches the handler and
\* getVersionDiff fails with DiffApiError.  In both cases the payload
\* request is never submitted.
C31_ApiErrorUnlessGatewayError ==
  /\ (completed /\ purpose[last.task].what = "api" /\ last.error = "null") =>
       IF last.statusCode \in {502, 503, 504}
       THEN /\ last.did = (IF last.retries < MAX_RETRIES THEN "retry" ELSE "reject")
            /\ last.did = "reject" => last.value = NullValue
       ELSE last.did = "resolve"
  /\ \A c \in callsOf("getVersionDiff") :
       /\ calls[c].apiStatus >= 400 =>
            /\ calls[c].apiStatus \notin {502, 503, 504}
            /\ calls[c].stage = "failed"
            /\ calls[c].result = DiffApiError
            /\ requestsFor(c, "payload") = {}
       /\ \A t \in requestsFor(c, "api") :
            state[t] = "rejected" =>
              /\ calls[c].apiStatus = 0
              /\ calls[c].result # DiffApiError
              /\ requestsFor(c, "payload") = {}
       /\ requestsFor(c, "payload") # {} => calls[c].apiStatus \in 1..399

\* the diff host's API answered 404 and getVersionDiff has failed with
\* DiffApiError after two requests
C31_Witness ==
  \E c \in callsOf("getVersionDiff") :
    /\ calls[c].stage = "failed"
    /\ calls[c].result = DiffApiError
    /\ calls[c].apiStatus = 404
    /\ Cardinality(tasksOf(c)) = 2

\* ------------------------------------------------------------------------
\* C32 as stated: if the content-API request of getVersionRawContent
\* returns any error status (>= 400), the operation fails with
\* InvalidVersionError (VERSIONISTA:INVALID_URL): that request is not
\* retried, the content request is never submitted, and no cache-expiry
\* retry is consumed.
\* ------------------------------------------------------------------------
C32_ContentApiErrorNotRetried ==
  /\ (completed /\ purpose[last.task].what = "contentApi"
        /\ last.error = "null" /\ last.statusCode >= 400) =>
       last.did = "resolve"
  /\ \A c \in callsOf("getVersionRawContent") :
       calls[c].apiStatus >= 400 =>
         /\ calls[c].stage = "failed"
         /\ calls[c].result = InvalidUrlError
         /\ Cardinality(requestsFor(c, "content")) = calls[c].attempts - 1
         /\ calls[c].retries = calls[c].args.retries - (calls[c].attempts - 1)

\* C32 as amended: the content-API request goes through the scheduler with
\* the default retry predicate, so a 502, 503 or 504 is retried while the
\* task has retries left and then rejected with the scheduler's value
\* (null), with which the operation fails.  Any other status >= 400
\* reaches the handler without a retry and the operation fails with
\* InvalidVersionError.  In both cases the content request of that attempt
\* is never submitted and no cache-expiry retry is consumed.
C32_ContentApiErrorUnlessGatewayError ==
  /\ (completed /\ purpose[last.task].what = "contentApi" /\ last.error = "null") =>
       IF last.statusCode \in {502, 503, 504}
       THEN /\ last.did = (IF last.retries < MAX_RETRIES THEN "retry" ELSE "reject")
            /\ last.did = "reject" => last.value = NullValue
       ELSE last.did = "resolve"
  /\ \A c \in callsOf("getVersionRawContent") :
       /\ calls[c].apiStatus >= 400 =>
            /\ calls[c].apiStatus \notin {502, 503, 504}
            /\ calls[c].stage = "failed"
            /\ calls[c].result = InvalidUrlError
       /\ (\/ calls[c].apiStatus >= 400
           \/ calls[c].stage = "failed"
                /\ \E t \in requestsFor(c, "contentApi") : state[t] = "rejected") =>
            /\ calls[c].stage = "failed"
            /\ Cardinality(requestsFor(c, "content")) = calls[c].attempts - 1
            /\ calls[c].retries = calls[c].args.retries - (calls[c].attempts - 1)
       /\ (calls[c].stage = "failed"
             /\ \E t \in requestsFor(c, "contentApi") : state[t] = "rejected") =>
            calls[c].result # InvalidUrlError

\* the content API answered 404 on the second attempt, after the first had
\* met the placeholder: the operation has failed with InvalidVersionError
C32_Witness ==
  \E c \in callsOf("getVersionRawContent") :
    /\ calls[c].stage = "failed"
    /\ calls[c].result = InvalidUrlError
    /\ calls[c].apiStatus = 404
    /\ calls[c].attempts = 2

\* ------------------------------------------------------------------------
\* C36: when the handler of a completed task submits an immediate
\* follow-up request, the follow-up is already in the queue when the
\* scheduler picks the next task after that completion: no normal-priority
\* task that was waiting at the completion is dispatched before it.  Here
\* for the diff host's API request of getVersionDiff, whose handler submits
\* the payload request: in the dispatch attempt scheduled by its
\* completion, with the handler still to run, no normal-priority task
\* leaves the queue.
\* ------------------------------------------------------------------------
C36_FollowUpQueuedBeforeNextDispatch ==
  [][(/\ tickPending
      /\ pending.did = "resolve"
      /\ purpose[pending.task].what = "api"
      /\ ~apiFailed(pending.value.statusCode)) =>
       \A u \in TaskIds :
         ~(state[u] = "queued" /\ state'[u] = "inflight" /\ ~purpose[u].immediate)]_vars

====
